---- MODULE Spec2Model ----
(***************************************************************************)
(* Command authorization and anomaly pipeline of the TT&C gateway:         *)
(*   - policy.Engine        (ordered first-match rule evaluation)           *)
(*   - anomaly.Detector     (sliding-window anomaly checks)                 *)
(***************************************************************************)
EXTENDS Integers, Sequences, FiniteSets, TLC

VARIABLES
    rules,      \* Engine.rules: the registered rule ids, in order
    pc,         \* per caller: position of its Evaluate call
    ctx,        \* per caller: the CommandContext passed to Evaluate
    idx,        \* per caller: index of the rule the range loop is at
    decision,   \* per caller: the PolicyDecision returned
    config,             \* Detector.config, as NewDetector stored it
    commandCounts,      \* Detector.commandCounts: command -> timestamps
    operatorActivity,   \* Detector.operatorActivity: role -> timestamps
    now,                \* the wall clock, in seconds (time.Now().UTC())
    calls,              \* the CheckCommand calls made so far, with their results
    mu,         \* Detector.mu: the goroutine holding it, 0 when free
    dpc,        \* per goroutine: position of its CheckCommand call
    dargs,      \* per goroutine: the arguments of its CheckCommand call
    danoms,     \* per goroutine: the anomalies slice of its CheckCommand call
    hpc,        \* POST /command handler: position in the handler
    req,        \* handler: the request being served and its environment
    hAnoms,     \* handler: anomalies returned by CheckCommand
    hDecision,  \* handler: decision returned by Evaluate
    trace,      \* handler: log lines, audit deliveries and forwards, in order
    response,   \* handler: the HTTP response written
    history,           \* MLAnomalyDetector.history
    maxHistorySize,    \* MLAnomalyDetector.maxHistorySize
    commandBaselines,  \* MLAnomalyDetector.commandBaselines
    roleBaselines,     \* MLAnomalyDetector.roleBaselines
    modelPath,         \* MLAnomalyDetector.modelPath is not the empty string
    recorded,          \* the number of RecordCommand calls made so far
    recordLog,         \* the command and role of each RecordCommand call
    fromFile,          \* loadModel found a saved model at construction
    lastScore,         \* the last DetectAnomaly call and what it returned
    savers,            \* saveModel goroutines, counted by position
    saves,             \* the number of saveModel goroutines started so far
    currentVersion,    \* ota.Client.currentVersion
    signingSecret,     \* ota.Client.signingSecret
    opc,               \* StartUpdateLoop: position in the iteration
    updateResp,        \* StartUpdateLoop: the response of CheckForUpdates
    verified,          \* what VerifySignature returned in the last ApplyUpdate
    checks,            \* the number of update checks made so far
    webhooks,          \* WebhookManager.webhooks
    queue,             \* WebhookManager.queue: the deliveries in the channel
    workers,           \* per worker goroutine: position and delivery in hand
    ledger,            \* per delivery queued by SendEvent: what became of it
    events             \* the number of SendEvent calls made so far

polVars == <<rules, pc, ctx, idx, decision>>

detVars == <<config, commandCounts, operatorActivity, now, calls>>

lockVars == <<mu, dpc, dargs, danoms>>

pipeVars == <<hpc, req, hAnoms, hDecision, trace, response>>

scorerVars ==
    <<history, maxHistorySize, commandBaselines, roleBaselines, modelPath,
      recorded, recordLog, fromFile, lastScore, savers, saves>>

vars == <<rules, pc, ctx, idx, decision,
          config, commandCounts, operatorActivity, now, calls,
          mu, dpc, dargs, danoms,
          hpc, req, hAnoms, hDecision, trace, response,
          history, maxHistorySize, commandBaselines, roleBaselines, modelPath,
          recorded, recordLog, fromFile, lastScore, savers, saves,
          currentVersion, signingSecret, opc, updateResp, verified, checks,
          webhooks, queue, workers, ledger, events>>

hookVars == <<webhooks, queue, workers, ledger, events>>

otaVars == <<currentVersion, signingSecret, opc, updateResp, verified, checks>>

(***************************************************************************)
(* policy.Engine                                                           *)
(***************************************************************************)

\* Command names appearing in the rule tables, plus one that is in none.
Commands ==
    {"deorbit", "disable_power", "format_memory", "orbit_change",
     "emergency_safe_mode", "health_check", "exit_safe_mode",
     "diagnostics", "system_status", "payload_toggle", "maintenance_mode",
     "reboot"}

\* Roles the gateway resolves, plus one it does not know.
Roles == {"operator", "engineer", "admin", "guest"}

MissionPhases == {"normal", "critical", "safe_mode", "maintenance"}

CommandContext ==
    [Command : Commands, OperatorRole : Roles, MissionPhase : MissionPhases]

dangerousCommands == {"deorbit", "disable_power", "format_memory", "orbit_change"}

criticalCommands == {"emergency_safe_mode", "health_check"}

allowedInSafeMode == {"health_check", "exit_safe_mode", "emergency_safe_mode"}

engineerCommands ==
    {"health_check", "diagnostics", "system_status", "payload_toggle",
     "maintenance_mode"}

\* The zero value of a PolicyDecision before anything is returned.
NoDecision == [Allowed |-> FALSE, RuleID |-> "", Severity |-> ""]

NoContext == [Command |-> "", OperatorRole |-> "", MissionPhase |-> ""]

DefaultRulesEngineerFirst ==
    <<"engineer-role-restrictions", "dangerous-command-admin-only",
      "critical-phase-restrictions", "safe-mode-restrictions">>

DefaultRulesEngineerBeforeSafeMode ==
    <<"dangerous-command-admin-only", "critical-phase-restrictions",
      "engineer-role-restrictions", "safe-mode-restrictions">>

\* loadDefaultRules: the rule ids in the order they are appended.
DefaultRules ==
    <<"dangerous-command-admin-only", "critical-phase-restrictions",
      "safe-mode-restrictions", "engineer-role-restrictions">>

\* Rule.Condition of the rule with the given id.
Condition(id, c) ==
    CASE id = "dangerous-command-admin-only" -> c.Command \in dangerousCommands
      [] id = "critical-phase-restrictions"  -> c.MissionPhase = "critical"
      [] id = "safe-mode-restrictions"       -> c.MissionPhase = "safe_mode"
      [] id = "engineer-role-restrictions"   -> c.OperatorRole = "engineer"

DangerousActionEngineerToo(c) ==
    IF c.OperatorRole # "admin" /\ c.OperatorRole # "engineer"
    THEN [Allowed |-> FALSE, RuleID |-> "", Severity |-> "high"]
    ELSE [Allowed |-> TRUE, RuleID |-> "", Severity |-> "high"]

\* Rule.Action of rule 1 (RuleID is filled in by Evaluate).
DangerousAction(c) ==
    IF c.OperatorRole # "admin"
    THEN [Allowed |-> FALSE, RuleID |-> "", Severity |-> "high"]
    ELSE [Allowed |-> TRUE, RuleID |-> "", Severity |-> "high"]

CriticalActionOr(c) ==
    IF c.Command \notin criticalCommands \/ c.OperatorRole # "admin"
    THEN [Allowed |-> FALSE, RuleID |-> "", Severity |-> "medium"]
    ELSE [Allowed |-> TRUE, RuleID |-> "", Severity |-> "medium"]

\* Rule.Action of rule 2.
CriticalAction(c) ==
    IF c.Command \notin criticalCommands /\ c.OperatorRole # "admin"
    THEN [Allowed |-> FALSE, RuleID |-> "", Severity |-> "medium"]
    ELSE [Allowed |-> TRUE, RuleID |-> "", Severity |-> "medium"]

\* Rule.Action of rule 3.
SafeModeAction(c) ==
    IF c.Command \notin allowedInSafeMode
    THEN [Allowed |-> FALSE, RuleID |-> "", Severity |-> "high"]
    ELSE [Allowed |-> TRUE, RuleID |-> "", Severity |-> "medium"]

EngineerActionAllowAll(c) ==
    [Allowed |-> TRUE, RuleID |-> "", Severity |-> "low"]

\* Rule.Action of rule 4.
EngineerAction(c) ==
    IF c.Command \notin engineerCommands
    THEN [Allowed |-> FALSE, RuleID |-> "", Severity |-> "medium"]
    ELSE [Allowed |-> TRUE, RuleID |-> "", Severity |-> "low"]

Action(id, c) ==
    CASE id = "dangerous-command-admin-only" -> DangerousAction(c)
      [] id = "critical-phase-restrictions"  -> CriticalAction(c)
      [] id = "safe-mode-restrictions"       -> SafeModeAction(c)
      [] id = "engineer-role-restrictions"   -> EngineerAction(c)

DefaultDeny == [Allowed |-> FALSE, RuleID |-> "default-deny", Severity |-> "low"]

\* The decision Evaluate returns after the loop ran off the end of the rules.
DefaultDecision == [Allowed |-> TRUE, RuleID |-> "default-allow", Severity |-> "low"]

\* One iteration of Evaluate's range loop at rule i: the decision it returns,
\* or NoDecision when the loop goes on to the next rule.
RuleDecision(rs, i, c) ==
    IF Condition(rs[i], c)
    THEN [Action(rs[i], c) EXCEPT !.RuleID = rs[i]]
    ELSE NoDecision

RECURSIVE EvaluateFrom(_, _, _)
\* Evaluate's loop from rule i on, run without interruption.
EvaluateFrom(rs, i, c) ==
    IF i > Len(rs) THEN DefaultDecision
    ELSE IF Condition(rs[i], c) THEN RuleDecision(rs, i, c)
    ELSE EvaluateFrom(rs, i + 1, c)

\* Engine.Evaluate on the engine's rule list.
Evaluate(c) == EvaluateFrom(rules, 1, c)

(***************************************************************************)
(* anomaly.Detector                                                        *)
(***************************************************************************)

\* A Go map with no entries.
EmptyMap == [k \in {} |-> <<>>]

\* m[k] of a Go map: the zero value when the key is absent.
MapGet(m, k, zero) == IF k \in DOMAIN m THEN m[k] ELSE zero

SecondsPerMinute == 60

SecondsPerHour == 3600

HoursPerDay == 24

\* timestamp.UTC().Hour()
Hour(ts) == (ts \div SecondsPerHour) % HoursPerDay

\* The rate map NewDetector installs when the configuration has none.
DefaultMaxCommandsPerMinute ==
    [k \in {"deorbit", "orbit_change", "payload_toggle", "default"} |->
        CASE k = "deorbit" -> 1
          [] k = "orbit_change" -> 2
          [] k = "payload_toggle" -> 10
          [] k = "default" -> 30]

DefaultNormalHoursStart == 8

DefaultNormalHoursEnd == 20

DefaultBurstThreshold == 10

DefaultBurstTimeWindow == 10

\* anomaly.Config{}: a nil rate map (<<>>; a map m is <<m>>) and zero fields.
ZeroConfig ==
    [MaxCommandsPerMinute |-> <<>>, NormalHoursStart |-> 0, NormalHoursEnd |-> 0,
     BurstThreshold |-> 0, BurstTimeWindow |-> 0]

\* NewDetector: the configuration the detector keeps.
NewDetector(cfg) ==
    LET zeroHours == cfg.NormalHoursStart = 0 /\ cfg.NormalHoursEnd = 0
        zeroBurst == cfg.BurstThreshold = 0
    IN  [MaxCommandsPerMinute |->
            IF cfg.MaxCommandsPerMinute = <<>>
            THEN DefaultMaxCommandsPerMinute
            ELSE cfg.MaxCommandsPerMinute[1],
         NormalHoursStart |->
            IF zeroHours THEN DefaultNormalHoursStart ELSE cfg.NormalHoursStart,
         NormalHoursEnd |->
            IF zeroHours THEN DefaultNormalHoursEnd ELSE cfg.NormalHoursEnd,
         BurstThreshold |->
            IF zeroBurst THEN DefaultBurstThreshold ELSE cfg.BurstThreshold,
         BurstTimeWindow |->
            IF zeroBurst THEN DefaultBurstTimeWindow ELSE cfg.BurstTimeWindow]

\* Number of entries t of a timestamp slice with t.After(bound).
CountAfter(times, bound) ==
    Cardinality({i \in 1..Len(times) : times[i] > bound})

RetentionSeconds == 300

cleanupKeepEmptyKeys(m, cutoff) ==
    [k \in DOMAIN m |-> SelectSeq(m[k], LAMBDA t : t > cutoff)]

\* cleanup on one of the two maps: keep the entries after the cutoff and
\* delete the keys left with none.
cleanup(m, cutoff) ==
    LET filtered(k) == SelectSeq(m[k], LAMBDA t : t > cutoff)
    IN  [k \in {x \in DOMAIN m : filtered(x) # <<>>} |-> filtered(k)]

Anomaly(type, command, role, severity) ==
    [Type |-> type, Command |-> command, OperatorRole |-> role,
     Severity |-> severity]

checkRateLimitAbove(cfg, counts, command, ts) ==
    LET m == cfg.MaxCommandsPerMinute
        maxRate == IF command \in DOMAIN m THEN m[command]
                   ELSE MapGet(m, "default", 0)
        count == CountAfter(MapGet(counts, command, <<>>), ts - SecondsPerMinute)
    IN  IF count > maxRate
        THEN <<Anomaly("rate_limit", command, "", "high")>>
        ELSE <<>>

\* checkRateLimit: the anomaly it returns, as a slice of zero or one.
checkRateLimit(cfg, counts, command, ts) ==
    LET m == cfg.MaxCommandsPerMinute
        maxRate == IF command \in DOMAIN m THEN m[command]
                   ELSE MapGet(m, "default", 0)
        count == CountAfter(MapGet(counts, command, <<>>), ts - SecondsPerMinute)
    IN  IF count >= maxRate
        THEN <<Anomaly("rate_limit", command, "", "high")>>
        ELSE <<>>

checkTimeOfDayInclusiveEnd(cfg, ts) ==
    LET hour == Hour(ts)
        inNormalHours ==
            IF cfg.NormalHoursStart <= cfg.NormalHoursEnd
            THEN hour >= cfg.NormalHoursStart /\ hour <= cfg.NormalHoursEnd
            ELSE hour >= cfg.NormalHoursStart \/ hour <= cfg.NormalHoursEnd
    IN  IF ~inNormalHours
        THEN <<Anomaly("time_of_day", "", "", "medium")>>
        ELSE <<>>

\* checkTimeOfDay.
checkTimeOfDay(cfg, ts) ==
    LET hour == Hour(ts)
        inNormalHours ==
            IF cfg.NormalHoursStart <= cfg.NormalHoursEnd
            THEN hour >= cfg.NormalHoursStart /\ hour < cfg.NormalHoursEnd
            ELSE hour >= cfg.NormalHoursStart \/ hour < cfg.NormalHoursEnd
    IN  IF ~inNormalHours
        THEN <<Anomaly("time_of_day", "", "", "medium")>>
        ELSE <<>>

checkCommandBurstSameCommand(cfg, counts, command, ts) ==
    LET count == CountAfter(MapGet(counts, command, <<>>),
                            ts - cfg.BurstTimeWindow)
    IN  IF count >= cfg.BurstThreshold
        THEN <<Anomaly("command_burst", command, "", "high")>>
        ELSE <<>>

\* checkCommandBurst: counts the entries of every command in the window.
checkCommandBurst(cfg, counts, command, ts) ==
    LET windowStart == ts - cfg.BurstTimeWindow
        entries == UNION {{k} \X (1..Len(counts[k])) : k \in DOMAIN counts}
        count == Cardinality({e \in entries : counts[e[1]][e[2]] > windowStart})
    IN  IF count >= cfg.BurstThreshold
        THEN <<Anomaly("command_burst", command, "", "high")>>
        ELSE <<>>

RoleActivityThreshold == 50

EarlyHour == 6

LateHour == 22

\* checkUnusualRoleActivity.
checkUnusualRoleActivity(activity, role, ts) ==
    LET activityCount ==
            CountAfter(MapGet(activity, role, <<>>), ts - SecondsPerHour)
        hour == Hour(ts)
    IN  IF activityCount > RoleActivityThreshold
           /\ (hour < EarlyHour \/ hour > LateHour)
        THEN <<Anomaly("unusual_role", "", role, "medium")>>
        ELSE <<>>

\* recordCommand on one of the two maps: append the timestamp to the key's
\* slice (a missing key starts from the nil slice).
recordCommand(m, k, ts) ==
    [x \in DOMAIN m \cup {k} |->
        IF x = k THEN Append(MapGet(m, k, <<>>), ts) ELSE m[x]]

\* The anomalies CheckCommand returns: the four checks, in order, on the
\* pruned maps.
CheckAnomalies(cfg, counts, activity, command, role, ts) ==
    checkRateLimit(cfg, counts, command, ts)
        \o checkTimeOfDay(cfg, ts)
        \o checkCommandBurst(cfg, counts, command, ts)
        \o checkUnusualRoleActivity(activity, role, ts)

\* The detector right after NewDetector(cfg), with the clock at start.
InitDetector(cfg, start) ==
    /\ config = NewDetector(cfg)
    /\ commandCounts = EmptyMap
    /\ operatorActivity = EmptyMap
    /\ now = start
    /\ calls = <<>>

\* CheckCommand recording the observation before it runs the checks.
CheckCommandRecordFirst(command, role, dt) ==
    LET ts == now + dt
        cutoff == ts - RetentionSeconds
        counts == recordCommand(cleanup(commandCounts, cutoff), command, ts)
        activity == recordCommand(cleanup(operatorActivity, cutoff), role, ts)
        anomalies == CheckAnomalies(config, counts, activity, command, role, ts)
    IN  /\ now' = ts
        /\ commandCounts' = counts
        /\ operatorActivity' = activity
        /\ calls' = Append(calls, [command |-> command, role |-> role,
                                   ts |-> ts, anomalies |-> anomalies])
        /\ UNCHANGED config

\* The request handler reads the clock, dt seconds after the previous
\* request, and calls CheckCommand(command, role, timestamp): prune, the four
\* checks, record, all under d.mu.
CheckCommand(command, role, dt) ==
    LET ts == now + dt
        cutoff == ts - RetentionSeconds
        counts == cleanup(commandCounts, cutoff)
        activity == cleanup(operatorActivity, cutoff)
        anomalies == CheckAnomalies(config, counts, activity, command, role, ts)
    IN  /\ now' = ts
        /\ commandCounts' = recordCommand(counts, command, ts)
        /\ operatorActivity' = recordCommand(activity, role, ts)
        /\ calls' = Append(calls, [command |-> command, role |-> role,
                                   ts |-> ts, anomalies |-> anomalies])
        /\ UNCHANGED config

NumCheckers == 2

\* Request goroutines that may be inside CheckCommand at the same time.
Checkers == 1..NumCheckers

NoArgs == [command |-> "", role |-> "", ts |-> 0]

\* No goroutine is inside CheckCommand and d.mu is free.
InitCheckers ==
    /\ mu = 0
    /\ dpc = [p \in Checkers |-> "idle"]
    /\ dargs = [p \in Checkers |-> NoArgs]
    /\ danoms = [p \in Checkers |-> <<>>]

\* The request, with the environment variables the handler reads for it.
NoRequest ==
    [valid |-> FALSE, command |-> "", role |-> "", missionPhase |-> "",
     socURL |-> FALSE]

NoResponse == [code |-> 0, status |-> "", decision |-> "", error |-> ""]

\* The handler is waiting for a request.
InitHandler ==
    /\ hpc = "idle"
    /\ req = NoRequest
    /\ hAnoms = <<>>
    /\ hDecision = NoDecision
    /\ trace = <<>>
    /\ response = NoResponse

(***************************************************************************)
(* ml.MLAnomalyDetector                                                    *)
(***************************************************************************)

\* Sub-scores are in hundredths, the composite score in ten-thousandths and
\* the confidence in tenths, so that the arithmetic is exact.  Running means
\* are kept as a sum beside the count.  Command parameters only set the
\* HasParams feature, which no score reads, and are left out.

WrapHours == 48

SecondsPerDay == HoursPerDay * SecondsPerHour

DaysPerWeek == 7

\* time.Unix(0, 0) is a Thursday.
EpochWeekday == 4

\* int(timestamp.Weekday()): Sunday is 0.
Weekday(ts) == ((ts \div SecondsPerDay) + EpochWeekday) % DaysPerWeek

Abs(x) == IF x < 0 THEN -x ELSE x

Min(x, y) == IF x < y THEN x ELSE y

\* The sum of the counts of a histogram.
RECURSIVE SumCounts(_)
SumCounts(h) ==
    IF DOMAIN h = {} THEN 0
    ELSE LET k == CHOOSE x \in DOMAIN h : TRUE
         IN  h[k] + SumCounts([y \in DOMAIN h \ {k} |-> h[y]])

\* A map with one entry set, added when the key is new.
MapSet(m, k, v) == [x \in DOMAIN m \cup {k} |-> IF x = k THEN v ELSE m[x]]

\* The model of the scorer with no observation.
EmptyModel ==
    [history |-> <<>>, commandBaselines |-> EmptyMap,
     roleBaselines |-> EmptyMap]

extractFeatures(m, cmd, role, timestamp) ==
    [Command |-> cmd, Role |-> role, HourOfDay |-> Hour(timestamp),
     DayOfWeek |-> Weekday(timestamp),
     TimeSinceLast |-> IF Len(m.history) > 0
                       THEN timestamp - m.history[Len(m.history)].Timestamp
                       ELSE 0]

NewCommandScore == 60

UnusualRoleScore == 40

RareRoleScore == 20

RareRoleRatio == 10

UnusualTimeScore == 30

OffTimeScore == 15

UnusualIntervalScore == 30

MaxScore == 100

\* Half a day and a day, for a distance taken around the clock.
hourDiffAroundClock(baseline, hourOfDay) ==
    LET plainDiff == Abs(hourOfDay * baseline.Count - baseline.HourSum)
    IN  IF 2 * plainDiff > HoursPerDay * baseline.Count
        THEN HoursPerDay * baseline.Count - plainDiff
        ELSE plainDiff

\* hourDiff times Count, the mean hour being HourSum / Count: the absolute
\* difference, replaced by 48 minus itself when above 24.
hourDiff(baseline, hourOfDay) ==
    LET plainDiff == Abs(hourOfDay * baseline.Count - baseline.HourSum)
    IN  IF plainDiff > HoursPerDay * baseline.Count
        THEN WrapHours * baseline.Count - plainDiff
        ELSE plainDiff

\* The score of a command that has a baseline.
baselineScore(baseline, features) ==
    LET roleCount == MapGet(baseline.TypicalRoles, features.Role, 0)
        roleTerm == IF roleCount = 0 THEN UnusualRoleScore
                    ELSE IF RareRoleRatio * roleCount < baseline.Count
                    THEN RareRoleScore ELSE 0
        diff == hourDiff(baseline, features.HourOfDay)
        hourTerm ==
            IF baseline.StdHourOfDay > 0
            THEN IF diff > 2 * baseline.StdHourOfDay * baseline.Count
                 THEN UnusualTimeScore
                 ELSE IF diff > baseline.StdHourOfDay * baseline.Count
                 THEN OffTimeScore ELSE 0
            ELSE 0
        intervalTerm ==
            IF /\ features.TimeSinceLast > 0
               /\ baseline.StdTimeBetween > 0
               /\ Abs(features.TimeSinceLast - baseline.AvgTimeBetween)
                      > 2 * baseline.StdTimeBetween
            THEN UnusualIntervalScore ELSE 0
    IN  Min(roleTerm + hourTerm + intervalTerm, MaxScore)

computeCommandAnomalyScoreAsUnseenRole(m, features) ==
    IF features.Command \notin DOMAIN m.commandBaselines
    THEN UnusualRoleScore
    ELSE baselineScore(m.commandBaselines[features.Command], features)

computeCommandAnomalyScore(m, features) ==
    IF features.Command \notin DOMAIN m.commandBaselines
    THEN NewCommandScore
    ELSE baselineScore(m.commandBaselines[features.Command], features)

NewRoleScore == 50

UnusualCommandScore == 50

RareCommandScore == 25

RareCommandRatio == 20

UnusualHourScore == 30

computeRoleAnomalyScore(m, features) ==
    IF features.Role \notin DOMAIN m.roleBaselines
    THEN NewRoleScore
    ELSE LET baseline == m.roleBaselines[features.Role]
             cmdCount == MapGet(baseline.TypicalCommands, features.Command, 0)
             totalCmds == SumCounts(baseline.TypicalCommands)
             cmdTerm == IF cmdCount = 0 THEN UnusualCommandScore
                        ELSE IF totalCmds > 0
                                /\ RareCommandRatio * cmdCount < totalCmds
                        THEN RareCommandScore ELSE 0
             hourCount == MapGet(baseline.TypicalHours, features.HourOfDay, 0)
             hourTerm == IF hourCount = 0 THEN UnusualHourScore ELSE 0
         IN  Min(cmdTerm + hourTerm, MaxScore)

NightStart == 2

NightEnd == 5

NightScore == 40

WeekendScore == 30

WeekendRatio == 10

IsWeekend(day) == day = 0 \/ day = 6

computeTemporalAnomalyScore(m, features) ==
    LET nightTerm == IF features.HourOfDay >= NightStart
                        /\ features.HourOfDay <= NightEnd
                     THEN NightScore ELSE 0
        weekendCount ==
            Cardinality({i \in 1..Len(m.history) :
                             IsWeekend(Weekday(m.history[i].Timestamp))})
        weekdayCount == Len(m.history) - weekendCount
        weekendTerm == IF /\ IsWeekend(features.DayOfWeek)
                          /\ weekdayCount > 0
                          /\ WeekendRatio * weekendCount < weekdayCount
                       THEN WeekendScore ELSE 0
    IN  Min(nightTerm + weekendTerm, MaxScore)

RecentSeconds == 300

\* The entries counted by the loop that walks the history backwards and
\* stops at the first entry older than five minutes.
RecentCount(h, timestamp) ==
    LET old == {i \in 1..Len(h) : h[i].Timestamp < timestamp - RecentSeconds}
    IN  IF old = {} THEN Len(h)
        ELSE Len(h) - (CHOOSE i \in old : \A j \in old : j <= i)

computeFrequencyAnomalyScoreUncapped(m, timestamp) ==
    LET recentCount == RecentCount(m.history, timestamp)
    IN  10 * recentCount

computeFrequencyAnomalyScore(m, timestamp) ==
    LET recentCount == RecentCount(m.history, timestamp)
    IN  IF recentCount > 20 THEN 80
        ELSE IF recentCount > 10 THEN 50
        ELSE IF recentCount > 5 THEN 30
        ELSE 0

computeConfidence(m) ==
    LET historySize == Len(m.history)
    IN  IF historySize < 10 THEN 1
        ELSE IF historySize < 50 THEN 5
        ELSE IF historySize < 200 THEN 7
        ELSE 9

\* DetectAnomaly scores only once the history holds this many entries.
MinHistory == 10

InsufficientHistoryOffByOne(m) == Len(m.history) + 1 < MinHistory

\* len(d.history) < 10: not enough data to score.
InsufficientHistory(m) == Len(m.history) < MinHistory

\* score.Threshold, 0.7
Threshold == 7000

BlockScore == 9000

AlertScore == 8000

ReasonScore == 50

RecommendedActionSwapped(score, isAnomaly) ==
    IF isAnomaly
    THEN IF score > BlockScore THEN "block_and_alert"
         ELSE IF score > AlertScore THEN "log_for_review"
         ELSE "alert_and_log"
    ELSE "allow"

RecommendedAction(score, isAnomaly) ==
    IF isAnomaly
    THEN IF score > BlockScore THEN "block_and_alert"
         ELSE IF score > AlertScore THEN "alert_and_log"
         ELSE "log_for_review"
    ELSE "allow"

\* The AnomalyScore DetectAnomaly starts from.
NoScore ==
    [Score |-> 0, IsAnomaly |-> FALSE, Threshold |-> Threshold,
     Reasons |-> <<>>, Confidence |-> 0, RecommendedAction |-> ""]

\* The four sub-scores DetectAnomaly combines.
SubScores(m, cmd, role, timestamp) ==
    LET features == extractFeatures(m, cmd, role, timestamp)
    IN  [command |-> computeCommandAnomalyScore(m, features),
         role |-> computeRoleAnomalyScore(m, features),
         temporal |-> computeTemporalAnomalyScore(m, features),
         frequency |-> computeFrequencyAnomalyScore(m, timestamp)]

\* What DetectAnomaly returns on model m at the given time.
AnomalyScore(m, cmd, role, timestamp) ==
    IF InsufficientHistory(m)
    THEN [NoScore EXCEPT !.Confidence = 1,
                         !.RecommendedAction = "collect_more_data"]
    ELSE LET sub == SubScores(m, cmd, role, timestamp)
             score == 30 * sub.command + 25 * sub.role
                          + 25 * sub.temporal + 20 * sub.frequency
             isAnomaly == score > Threshold
             Reason(value, name) ==
                 IF value > ReasonScore THEN <<name>> ELSE <<>>
         IN  [Score |-> score,
              IsAnomaly |-> isAnomaly,
              Threshold |-> Threshold,
              Reasons |-> Reason(sub.command, "unusual_command_pattern")
                              \o Reason(sub.role, "unusual_role_behavior")
                              \o Reason(sub.temporal, "unusual_timing")
                              \o Reason(sub.frequency, "unusual_frequency"),
              Confidence |-> computeConfidence(m),
              RecommendedAction |-> RecommendedAction(score, isAnomaly)]

\* One history entry; its features are functions of these three fields.
Entry(cmd, role, timestamp) ==
    [Timestamp |-> timestamp, Command |-> cmd, Role |-> role]

NewCommandBaseline ==
    [Count |-> 0, HourSum |-> 0, StdHourOfDay |-> 0, AvgTimeBetween |-> 0,
     StdTimeBetween |-> 0, TypicalRoles |-> EmptyMap, LastSeen |-> 0]

NewRoleBaseline ==
    [TypicalCommands |-> EmptyMap, TypicalHours |-> EmptyMap,
     LastActivity |-> 0]

\* baseline.X[k]++ on a histogram
Incremented(h, k) == MapSet(h, k, MapGet(h, k, 0) + 1)

updateBaselinesFromHistory(m, e) ==
    LET inHistory == {i \in 1..Len(m.history) :
                          m.history[i].Command = e.Command}
        baseline == MapGet(m.commandBaselines, e.Command, NewCommandBaseline)
        roleBaseline == MapGet(m.roleBaselines, e.Role, NewRoleBaseline)
    IN  [m EXCEPT
            !.commandBaselines = MapSet(@, e.Command,
                [baseline EXCEPT
                    !.Count = Cardinality(inHistory),
                    !.TypicalRoles = Incremented(@, e.Role),
                    !.LastSeen = e.Timestamp,
                    !.HourSum = @ + Hour(e.Timestamp)]),
            !.roleBaselines = MapSet(@, e.Role,
                [roleBaseline EXCEPT
                    !.TypicalCommands = Incremented(@, e.Command),
                    !.TypicalHours = Incremented(@, Hour(e.Timestamp)),
                    !.LastActivity = e.Timestamp])]

\* updateBaselines: the baselines of the entry's command and role, created
\* when new, take the entry in.
updateBaselines(m, e) ==
    LET baseline == MapGet(m.commandBaselines, e.Command, NewCommandBaseline)
        roleBaseline == MapGet(m.roleBaselines, e.Role, NewRoleBaseline)
    IN  [m EXCEPT
            !.commandBaselines = MapSet(@, e.Command,
                [baseline EXCEPT
                    !.Count = @ + 1,
                    !.TypicalRoles = Incremented(@, e.Role),
                    !.LastSeen = e.Timestamp,
                    !.HourSum = @ + Hour(e.Timestamp)]),
            !.roleBaselines = MapSet(@, e.Role,
                [roleBaseline EXCEPT
                    !.TypicalCommands = Incremented(@, e.Command),
                    !.TypicalHours = Incremented(@, Hour(e.Timestamp)),
                    !.LastActivity = e.Timestamp])]

\* The model after RecordCommand: the entry is appended, the oldest entry is
\* dropped when the history is then longer than the cap, and the baselines
\* are updated.
Recorded(m, cap, cmd, role, timestamp) ==
    LET e == Entry(cmd, role, timestamp)
        appended == Append(m.history, e)
        kept == IF Len(appended) > cap THEN Tail(appended) ELSE appended
    IN  updateBaselines([m EXCEPT !.history = kept], e)

\* The model held in the three fields of the detector.
Model ==
    [history |-> history, commandBaselines |-> commandBaselines,
     roleBaselines |-> roleBaselines]

NoSavers == [spawned |-> 0, locked |-> 0, writing |-> 0]

NoCall == [cmd |-> "", role |-> "", timestamp |-> 0, result |-> NoScore]

DocMaxHistory == 1000

\* NewMLAnomalyDetector(modelPath, maxHistory) with the model loadModel found,
\* the empty model when there is no file.
InitScorerWith(loaded, path, maxHistory) ==
    /\ history = loaded.history
    /\ commandBaselines = loaded.commandBaselines
    /\ roleBaselines = loaded.roleBaselines
    /\ maxHistorySize = maxHistory
    /\ modelPath = path
    /\ recorded = 0
    /\ recordLog = <<>>
    /\ fromFile = (loaded # EmptyModel)
    /\ lastScore = NoCall
    /\ savers = NoSavers
    /\ saves = 0

\* NewMLAnomalyDetector without a saved model: an empty history.
InitScorer == InitScorerWith(EmptyModel, FALSE, DocMaxHistory)

\* The request handler whose Evaluate calls are followed one at a time.
MainCaller == 1

NumCallers == 2

\* Request goroutines that may be inside Evaluate at the same time.
Callers == 1..NumCallers

(***************************************************************************)
(* integrations.WebhookManager                                             *)
(***************************************************************************)

NumWorkers == 2

\* The worker goroutines NewWebhookManager starts.
Workers == 1..NumWorkers

NoDelivery == [id |-> 0, Name |-> "", RetryCount |-> 0, Attempt |-> 0]

\* A worker waiting on the queue.
IdleWorker == [pc |-> "receive", delivery |-> NoDelivery]

\* NewWebhookManager(workers): no webhook, an empty queue, the workers
\* started.
InitManager ==
    /\ webhooks = [n \in {} |-> 0]
    /\ queue = <<>>
    /\ workers = [w \in Workers |-> IdleWorker]
    /\ ledger = <<>>
    /\ events = 0

(***************************************************************************)
(* ota.Client                                                              *)
(***************************************************************************)

\* An attestation string: empty, not JSON, or JSON with a digest and a
\* signature.
NoAttestation == [form |-> "empty", digest |-> "", signature |-> <<>>]

\* The zero UpdateResponse.
NoUpdate ==
    [Available |-> FALSE, UpdateAllowed |-> FALSE, Version |-> "",
     ImageDigest |-> "", Attestation |-> NoAttestation]

DefaultSecret == "dev-secret"

\* NewClient, with the value of SIGNING_SECRET in the environment.
NewClient(version, envSecret) ==
    /\ currentVersion = version
    /\ signingSecret = (IF envSecret = "" THEN DefaultSecret ELSE envSecret)
    /\ opc = "idle"
    /\ updateResp = NoUpdate
    /\ verified = "not_called"
    /\ checks = 0

InitClient == NewClient("v1", "")

\* NewEngine: an empty rule list, then loadDefaultRules.
InitEngine ==
    /\ rules = DefaultRules
    /\ pc = [p \in Callers |-> "idle"]
    /\ ctx = [p \in Callers |-> NoContext]
    /\ idx = [p \in Callers |-> 0]
    /\ decision = [p \in Callers |-> NoDecision]

\* main: policy.NewEngine() and anomaly.NewDetector(anomaly.Config{}).
InitPolicy ==
    /\ InitEngine
    /\ InitDetector(ZeroConfig, 0)
    /\ InitCheckers
    /\ InitClient
    /\ InitManager
    /\ InitHandler
    /\ InitScorer

\* A caller runs Evaluate(c) to completion.
EvaluateCall(p, c) ==
    /\ pc[p] = "idle"
    /\ ctx' = [ctx EXCEPT ![p] = c]
    /\ decision' = [decision EXCEPT ![p] = Evaluate(c)]
    /\ pc' = [pc EXCEPT ![p] = "done"]
    /\ UNCHANGED <<rules, idx>>
    /\ UNCHANGED <<detVars, lockVars, pipeVars, scorerVars, otaVars, hookVars>>

\* The caller has used the decision and is ready for the next request.
Return(p) ==
    /\ pc[p] = "done"
    /\ pc' = [pc EXCEPT ![p] = "idle"]
    /\ ctx' = [ctx EXCEPT ![p] = NoContext]
    /\ decision' = [decision EXCEPT ![p] = NoDecision]
    /\ idx' = [idx EXCEPT ![p] = 0]
    /\ UNCHANGED rules
    /\ UNCHANGED <<detVars, lockVars, pipeVars, scorerVars, otaVars, hookVars>>

NextPolicy ==
    \/ \E c \in CommandContext : EvaluateCall(MainCaller, c)
    \/ Return(MainCaller)

SpecPolicy == InitPolicy /\ [][NextPolicy]_vars

(***************************************************************************)
(* Concurrent callers of Evaluate: the range loop one iteration at a time. *)
(***************************************************************************)

\* One context for each way out of Evaluate (each rule allowing and denying,
\* and the fall-through).
ConcurrentContexts ==
    { [Command |-> "deorbit", OperatorRole |-> "engineer", MissionPhase |-> "critical"],
      [Command |-> "deorbit", OperatorRole |-> "admin", MissionPhase |-> "safe_mode"],
      [Command |-> "payload_toggle", OperatorRole |-> "engineer", MissionPhase |-> "critical"],
      [Command |-> "health_check", OperatorRole |-> "operator", MissionPhase |-> "critical"],
      [Command |-> "payload_toggle", OperatorRole |-> "operator", MissionPhase |-> "safe_mode"],
      [Command |-> "exit_safe_mode", OperatorRole |-> "engineer", MissionPhase |-> "safe_mode"],
      [Command |-> "reboot", OperatorRole |-> "engineer", MissionPhase |-> "normal"],
      [Command |-> "diagnostics", OperatorRole |-> "engineer", MissionPhase |-> "maintenance"],
      [Command |-> "reboot", OperatorRole |-> "guest", MissionPhase |-> "normal"] }

\* Evaluate is entered: the range loop starts at the first rule.
BeginEvaluate(p, c) ==
    /\ pc[p] = "idle"
    /\ pc' = [pc EXCEPT ![p] = "loop"]
    /\ ctx' = [ctx EXCEPT ![p] = c]
    /\ idx' = [idx EXCEPT ![p] = 1]
    /\ UNCHANGED <<rules, decision>>
    /\ UNCHANGED <<detVars, lockVars, pipeVars, scorerVars, otaVars, hookVars>>

\* A loop iteration that, on a match, also moves the matched rule to the
\* front of the shared rule list.
EvaluateStepMoveToFront(p) ==
    /\ pc[p] = "loop"
    /\ IF idx[p] > Len(rules)
       THEN /\ decision' = [decision EXCEPT ![p] = DefaultDecision]
            /\ pc' = [pc EXCEPT ![p] = "done"]
            /\ UNCHANGED <<idx, rules>>
       ELSE IF Condition(rules[idx[p]], ctx[p])
       THEN /\ decision' = [decision EXCEPT ![p] = RuleDecision(rules, idx[p], ctx[p])]
            /\ pc' = [pc EXCEPT ![p] = "done"]
            /\ rules' = <<rules[idx[p]]>> \o
                        SelectSeq(rules, LAMBDA r : r # rules[idx[p]])
            /\ UNCHANGED idx
       ELSE /\ idx' = [idx EXCEPT ![p] = idx[p] + 1]
            /\ UNCHANGED <<pc, decision, rules>>
    /\ UNCHANGED ctx
    /\ UNCHANGED <<detVars, lockVars, pipeVars, scorerVars, otaVars, hookVars>>

\* One iteration of Evaluate's range loop, or the return after the loop.
EvaluateStep(p) ==
    /\ pc[p] = "loop"
    /\ IF idx[p] > Len(rules)
       THEN /\ decision' = [decision EXCEPT ![p] = DefaultDecision]
            /\ pc' = [pc EXCEPT ![p] = "done"]
            /\ UNCHANGED idx
       ELSE IF Condition(rules[idx[p]], ctx[p])
       THEN /\ decision' = [decision EXCEPT ![p] = RuleDecision(rules, idx[p], ctx[p])]
            /\ pc' = [pc EXCEPT ![p] = "done"]
            /\ UNCHANGED idx
       ELSE /\ idx' = [idx EXCEPT ![p] = idx[p] + 1]
            /\ UNCHANGED <<pc, decision>>
    /\ UNCHANGED <<rules, ctx>>
    /\ UNCHANGED <<detVars, lockVars, pipeVars, scorerVars, otaVars, hookVars>>

NextPolicyConcurrent ==
    \/ \E p \in Callers, c \in ConcurrentContexts : BeginEvaluate(p, c)
    \/ \E p \in Callers : EvaluateStep(p)
    \/ \E p \in Callers : Return(p)

SpecPolicyConcurrent == InitPolicy /\ [][NextPolicyConcurrent]_vars

(***************************************************************************)
(* Properties of policy.Engine                                             *)
(***************************************************************************)

\* The context and decision of the Evaluate call the handler just completed.
Evaluated == pc[MainCaller] = "done"

evCtx == ctx[MainCaller]

evDecision == decision[MainCaller]

\* The id of the first rule, in registration order, whose predicate holds.
FirstMatchingRuleID(c) ==
    IF c.Command \in {"deorbit", "disable_power", "format_memory", "orbit_change"}
    THEN "dangerous-command-admin-only"
    ELSE IF c.MissionPhase = "critical" THEN "critical-phase-restrictions"
    ELSE IF c.MissionPhase = "safe_mode" THEN "safe-mode-restrictions"
    ELSE IF c.OperatorRole = "engineer" THEN "engineer-role-restrictions"
    ELSE "default-allow"

\* C1: every Evaluate call returns the decision of the first rule, in
\* registration order, whose predicate is true for the context (tagged with
\* that rule's id), or the default-allow decision when no predicate is true.
C1_FirstMatchWins ==
    Evaluated =>
        /\ evDecision.RuleID = FirstMatchingRuleID(evCtx)
        /\ evDecision.RuleID # "default-allow" =>
              /\ Condition(evDecision.RuleID, evCtx)
              /\ evDecision = [Action(evDecision.RuleID, evCtx)
                                 EXCEPT !.RuleID = evDecision.RuleID]
        /\ evDecision.RuleID = "default-allow" =>
              /\ evDecision.Allowed
              /\ \A i \in 1..Len(rules) : ~Condition(rules[i], evCtx)

\* A context that three rules match is decided by the first of them.
C1_Witness ==
    /\ Evaluated
    /\ evCtx = [Command |-> "deorbit", OperatorRole |-> "engineer",
                MissionPhase |-> "critical"]
    /\ evDecision.RuleID = "dangerous-command-admin-only"

\* C2: a dangerous command is decided by rule dangerous-command-admin-only in
\* every mission phase: denied with severity high unless the role is admin,
\* allowed when the role is admin.
C2_DangerousAdminOnly ==
    (Evaluated /\ evCtx.Command \in
        {"deorbit", "disable_power", "format_memory", "orbit_change"}) =>
        /\ evDecision.RuleID = "dangerous-command-admin-only"
        /\ evCtx.OperatorRole # "admin" =>
              (~evDecision.Allowed /\ evDecision.Severity = "high")
        /\ evCtx.OperatorRole = "admin" => evDecision.Allowed

\* An engineer's dangerous command in a critical phase has been denied.
C2_Witness ==
    /\ Evaluated
    /\ evCtx.Command = "format_memory"
    /\ evCtx.OperatorRole = "engineer"
    /\ evCtx.MissionPhase = "critical"
    /\ ~evDecision.Allowed
    /\ evDecision.Severity = "high"

\* C3: in safe_mode a command that is neither dangerous nor allowed in safe
\* mode is denied by rule safe-mode-restrictions, whatever the role.
C3_SafeModeDenies ==
    (/\ Evaluated
     /\ evCtx.MissionPhase = "safe_mode"
     /\ evCtx.Command \notin
           {"deorbit", "disable_power", "format_memory", "orbit_change"}
     /\ evCtx.Command \notin
           {"health_check", "exit_safe_mode", "emergency_safe_mode"}) =>
        /\ ~evDecision.Allowed
        /\ evDecision.RuleID = "safe-mode-restrictions"

\* operator + payload_toggle in safe_mode has been denied by rule 3.
C3_Witness ==
    /\ Evaluated
    /\ evCtx = [Command |-> "payload_toggle", OperatorRole |-> "operator",
                MissionPhase |-> "safe_mode"]
    /\ ~evDecision.Allowed
    /\ evDecision.RuleID = "safe-mode-restrictions"

\* C4: in the critical phase a non-dangerous command is allowed exactly when
\* the role is admin or the command is critical-safe; the decision is that of
\* rule critical-phase-restrictions, severity medium.
C4_CriticalPhase ==
    (/\ Evaluated
     /\ evCtx.MissionPhase = "critical"
     /\ evCtx.Command \notin
           {"deorbit", "disable_power", "format_memory", "orbit_change"}) =>
        /\ evDecision.Allowed <=>
              (\/ evCtx.OperatorRole = "admin"
               \/ evCtx.Command \in {"emergency_safe_mode", "health_check"})
        /\ evDecision.RuleID = "critical-phase-restrictions"
        /\ evDecision.Severity = "medium"

\* A non-admin's command outside the critical-safe set has been denied in
\* the critical phase.
C4_Witness ==
    /\ Evaluated
    /\ evCtx = [Command |-> "payload_toggle", OperatorRole |-> "operator",
                MissionPhase |-> "critical"]
    /\ ~evDecision.Allowed
    /\ evDecision.Severity = "medium"

\* C5 as stated: for role engineer, in every mission phase, a command is
\* allowed only if it is in the engineer command set.
C5_EngineerOnlyEngineerSet ==
    (Evaluated /\ evCtx.OperatorRole = "engineer" /\ evDecision.Allowed) =>
        evCtx.Command \in {"health_check", "diagnostics", "system_status",
                           "payload_toggle", "maintenance_mode"}

\* C5 amended: for role engineer a command is allowed only if it is in the
\* engineer command set, or the phase is critical and the command is
\* critical-safe, or the phase is safe_mode and the command is allowed in
\* safe mode (rules 2 and 3 decide before rule 4 is reached).
C5_EngineerAllowedSets ==
    (Evaluated /\ evCtx.OperatorRole = "engineer" /\ evDecision.Allowed) =>
        \/ evCtx.Command \in {"health_check", "diagnostics", "system_status",
                              "payload_toggle", "maintenance_mode"}
        \/ /\ evCtx.MissionPhase = "critical"
           /\ evCtx.Command \in {"emergency_safe_mode", "health_check"}
        \/ /\ evCtx.MissionPhase = "safe_mode"
           /\ evCtx.Command \in
                 {"health_check", "exit_safe_mode", "emergency_safe_mode"}

\* An engineer's command has been allowed by rule 4.
C5_Witness ==
    /\ Evaluated
    /\ evCtx.OperatorRole = "engineer"
    /\ evDecision.Allowed
    /\ evDecision.RuleID = "engineer-role-restrictions"

\* A command in none of the rule command sets.
InNoRuleSet(cmd) ==
    cmd \notin {"deorbit", "disable_power", "format_memory", "orbit_change",
                "emergency_safe_mode", "health_check", "exit_safe_mode",
                "diagnostics", "system_status", "payload_toggle",
                "maintenance_mode"}

\* C6 as stated: an unknown command from an unknown role gets the
\* default-allow decision in every mission phase.
C6_UnknownDefaultAllowAnyPhase ==
    (/\ Evaluated
     /\ InNoRuleSet(evCtx.Command)
     /\ evCtx.OperatorRole \notin {"operator", "engineer", "admin"}) =>
        evDecision = [Allowed |-> TRUE, RuleID |-> "default-allow",
                      Severity |-> "low"]

\* C6 amended: an unknown command from an unknown role gets the
\* default-allow decision (allowed, low severity) in every mission phase
\* other than critical and safe_mode.
C6_UnknownDefaultAllow ==
    (/\ Evaluated
     /\ InNoRuleSet(evCtx.Command)
     /\ evCtx.OperatorRole \notin {"operator", "engineer", "admin"}
     /\ evCtx.MissionPhase \notin {"critical", "safe_mode"}) =>
        evDecision = [Allowed |-> TRUE, RuleID |-> "default-allow",
                      Severity |-> "low"]

\* An unknown command from an unknown role fell through every rule.
C6_Witness ==
    /\ Evaluated
    /\ evCtx = [Command |-> "reboot", OperatorRole |-> "guest",
                MissionPhase |-> "maintenance"]
    /\ evDecision.RuleID = "default-allow"

\* Every finished concurrent call holds the decision of the same call run
\* alone on the rules NewEngine registered.
ConcurrentAsAlone ==
    \A p \in Callers :
        pc[p] = "done" => decision[p] = EvaluateFrom(DefaultRules, 1, ctx[p])

\* C7: the rule list is never modified after NewEngine, and under any
\* interleaving of concurrent Evaluate calls each call returns the decision
\* it returns when run alone on the same context.
C7_EvaluatePure ==
    /\ [][rules' = rules]_vars
    /\ []ConcurrentAsAlone

\* One call has returned while another is in the middle of its loop.
C7_Witness ==
    /\ pc[1] = "done"
    /\ pc[2] = "loop"
    /\ idx[2] > 1
    /\ decision[1].RuleID = "safe-mode-restrictions"

(***************************************************************************)
(* The detector under a stream of requests                                 *)
(***************************************************************************)

MaxCalls == 3

DetectorCommands == {"deorbit", "health_check"}

DetectorRoles == {"operator", "admin"}

\* Seconds between one request and the next.
Jumps == {0, 1, 10, 59, 300}

\* 08:00 and 23:00 UTC of the first day.
StartTimes == {8 * SecondsPerHour, 23 * SecondsPerHour}

\* Configurations handed to NewDetector: none, and two custom ones (the
\* second has no "default" rate).
DetectorConfigs ==
    { ZeroConfig,
      [MaxCommandsPerMinute |-> <<[k \in {"deorbit", "default"} |->
                                     IF k = "deorbit" THEN 2 ELSE 1]>>,
       NormalHoursStart |-> 22, NormalHoursEnd |-> 6,
       BurstThreshold |-> 2, BurstTimeWindow |-> 10],
      [MaxCommandsPerMinute |-> <<[k \in {"deorbit"} |-> 1]>>,
       NormalHoursStart |-> 0, NormalHoursEnd |-> 9,
       BurstThreshold |-> 3, BurstTimeWindow |-> 60] }

InitDetectorStream ==
    /\ InitEngine
    /\ InitCheckers
    /\ InitClient
    /\ InitManager
    /\ InitHandler
    /\ InitScorer
    /\ \E cfg \in DetectorConfigs, start \in StartTimes : InitDetector(cfg, start)

NextDetector ==
    \E command \in DetectorCommands, role \in DetectorRoles, dt \in Jumps :
        /\ Len(calls) < MaxCalls
        /\ CheckCommand(command, role, dt)
        /\ UNCHANGED <<polVars, lockVars, pipeVars, scorerVars, otaVars, hookVars>>

SpecDetector == InitDetectorStream /\ [][NextDetector]_vars

(***************************************************************************)
(* A burst of distinct commands against the default configuration          *)
(***************************************************************************)

MaxBurstCalls == 11

\* The commands of the burst, in the order they are sent.
BurstCommands ==
    <<"health_check", "diagnostics", "system_status", "payload_toggle",
      "maintenance_mode", "emergency_safe_mode", "exit_safe_mode", "reboot",
      "orbit_change", "deorbit", "disable_power", "format_memory">>

BurstJumps == {0, 1}

BurstConfigs ==
    { ZeroConfig,
      [MaxCommandsPerMinute |-> <<>>, NormalHoursStart |-> 0,
       NormalHoursEnd |-> 0, BurstThreshold |-> 3, BurstTimeWindow |-> 2] }

InitBurst ==
    /\ InitEngine
    /\ InitCheckers
    /\ InitClient
    /\ InitManager
    /\ InitHandler
    /\ InitScorer
    /\ \E cfg \in BurstConfigs : InitDetector(cfg, 8 * SecondsPerHour)

NextBurst ==
    \E dt \in BurstJumps :
        /\ Len(calls) < MaxBurstCalls
        /\ CheckCommand(BurstCommands[(Len(calls) % Len(BurstCommands)) + 1],
                        "operator", dt)
        /\ UNCHANGED <<polVars, lockVars, pipeVars, scorerVars, otaVars, hookVars>>

SpecBurst == InitBurst /\ [][NextBurst]_vars

(***************************************************************************)
(* Requests at every hour of the day against every normal-hours range      *)
(***************************************************************************)

MaxHourCalls == 2

\* Bounds of the configured normal-hours range.
RangeHours == {0, 1, 6, 8, 12, 20, 22, 23}

HourJumps == {0, SecondsPerHour - 1, SecondsPerHour}

InitTimeOfDay ==
    /\ InitEngine
    /\ InitCheckers
    /\ InitClient
    /\ InitManager
    /\ InitHandler
    /\ InitScorer
    /\ \E start \in RangeHours, end \in RangeHours, h \in 0..(HoursPerDay - 1) :
          InitDetector([ZeroConfig EXCEPT !.NormalHoursStart = start,
                                          !.NormalHoursEnd = end],
                       h * SecondsPerHour)

NextTimeOfDay ==
    \E dt \in HourJumps :
        /\ Len(calls) < MaxHourCalls
        /\ CheckCommand("health_check", "operator", dt)
        /\ UNCHANGED <<polVars, lockVars, pipeVars, scorerVars, otaVars, hookVars>>

SpecTimeOfDay == InitTimeOfDay /\ [][NextTimeOfDay]_vars

(***************************************************************************)
(* Properties of anomaly.Detector                                          *)
(***************************************************************************)

\* The anomaly types call i returned.
TypesOf(i) == {calls[i].anomalies[j].Type : j \in 1..Len(calls[i].anomalies)}

\* The anomalies of a given type call i returned.
OfType(i, type) ==
    {calls[i].anomalies[j] : j \in {x \in 1..Len(calls[i].anomalies) :
                                      calls[i].anomalies[x].Type = type}}

\* The calls up to and including call i that passed the same command.
SameCommandUpTo(i) == {j \in 1..i : calls[j].command = calls[i].command}

\* The per-minute threshold configured for a command: its own entry, else
\* the "default" entry, else none (zero).
ThresholdFor(command) ==
    LET m == config.MaxCommandsPerMinute
    IN  IF command \in DOMAIN m THEN m[command]
        ELSE IF "default" \in DOMAIN m THEN m["default"] ELSE 0

\* C8: when the same command is checked N+1 times with all timestamps less
\* than 60 seconds apart, N being its per-minute threshold, the (N+1)-th
\* call returns a rate_limit anomaly and none of the first N calls does.
C8_RateLimitOnNPlusFirst ==
    \A i \in 1..Len(calls) :
        LET same == SameCommandUpTo(i)
            k == Cardinality(same)
            N == ThresholdFor(calls[i].command)
        IN  (\A j \in same : calls[i].ts - calls[j].ts < 60) =>
                /\ k <= N => "rate_limit" \notin TypesOf(i)
                /\ k = N + 1 => "rate_limit" \in TypesOf(i)

\* deorbit, threshold 2, three times within a minute: only the third call
\* returned rate_limit.
C8_Witness ==
    /\ Len(calls) = 3
    /\ ThresholdFor("deorbit") = 2
    /\ \A i \in 1..3 : calls[i].command = "deorbit"
    /\ calls[3].ts - calls[1].ts = 59
    /\ "rate_limit" \notin TypesOf(1)
    /\ "rate_limit" \notin TypesOf(2)
    /\ "rate_limit" \in TypesOf(3)

\* Calls up to call i (the current one included or not) with a timestamp
\* inside the burst window before call i's timestamp.
InBurstWindow(i, inclusive) ==
    {j \in 1..(IF inclusive THEN i ELSE i - 1) :
        calls[j].ts > calls[i].ts - config.BurstTimeWindow}

\* C9 as stated: command_burst on a call exactly when the number of
\* commands in the burst window, counting the current call, reaches the
\* burst threshold (so the 10th of 10 triggers it by default).
C9_BurstCountingCurrent ==
    \A i \in 1..Len(calls) :
        "command_burst" \in TypesOf(i) <=>
            Cardinality(InBurstWindow(i, TRUE)) >= config.BurstThreshold

\* C9 amended: command_burst (severity high) on a call exactly when the
\* number of commands of any type checked before it with timestamps in the
\* burst window before the call's timestamp, not counting the call itself,
\* reaches the burst threshold.
C9_BurstCountingEarlier ==
    \A i \in 1..Len(calls) :
        /\ "command_burst" \in TypesOf(i) <=>
              Cardinality(InBurstWindow(i, FALSE)) >= config.BurstThreshold
        /\ \A a \in OfType(i, "command_burst") : a.Severity = "high"

\* Default configuration: eleven distinct commands within the window, and
\* the eleventh is the first to return command_burst.
C9_Witness ==
    /\ config.BurstThreshold = 10
    /\ Len(calls) = 11
    /\ Cardinality({calls[i].command : i \in 1..11}) = 11
    /\ calls[11].ts - calls[1].ts < 10
    /\ "command_burst" \in TypesOf(11)
    /\ \A i \in 1..10 : "command_burst" \notin TypesOf(i)

\* The hours of the normal range [start, end), wrapping past midnight when
\* start > end.
NormalHours(start, end) ==
    IF start <= end THEN {h \in 0..23 : start <= h /\ h < end}
    ELSE {h \in 0..23 : h >= start} \cup {h \in 0..23 : h < end}

\* C10: time_of_day (severity medium) is returned exactly when the UTC hour
\* of the timestamp is outside the configured normal-hours range; with the
\* default 08-20 range the hours 8..19 never produce it.
C10_TimeOfDay ==
    \A i \in 1..Len(calls) :
        LET hour == (calls[i].ts \div 3600) % 24
        IN  /\ "time_of_day" \in TypesOf(i) <=>
                  hour \notin NormalHours(config.NormalHoursStart,
                                          config.NormalHoursEnd)
            /\ \A a \in OfType(i, "time_of_day") : a.Severity = "medium"
            /\ (config.NormalHoursStart = 8 /\ config.NormalHoursEnd = 20
                   /\ hour \in 8..19) => "time_of_day" \notin TypesOf(i)

\* A wrapping range (22-06): a call at 05:00 returned no time_of_day anomaly
\* and the next one, an hour later at 06:00, returned one.
C10_Witness ==
    /\ config.NormalHoursStart = 22
    /\ config.NormalHoursEnd = 6
    /\ Len(calls) = 2
    /\ (calls[1].ts \div 3600) % 24 = 5
    /\ "time_of_day" \notin TypesOf(1)
    /\ (calls[2].ts \div 3600) % 24 = 6
    /\ "time_of_day" \in TypesOf(2)

(***************************************************************************)
(* One role sending requests at a steady pace                              *)
(***************************************************************************)

MaxRoleCalls == 52

\* Seconds between two requests of the stream.
RoleJumps == {1, 5, 6, 60}

\* 23:00, 12:00 and 05:50 UTC of the first day.
RoleStartTimes ==
    {23 * SecondsPerHour, 12 * SecondsPerHour, 5 * SecondsPerHour + 3000}

InitRoleActivity ==
    /\ InitEngine
    /\ InitCheckers
    /\ InitClient
    /\ InitManager
    /\ InitHandler
    /\ InitScorer
    /\ \E start \in RoleStartTimes : InitDetector(ZeroConfig, start)

\* The next request of the stream: once two requests were made, the gap
\* between requests stays what it was.
NextRoleActivity ==
    \E dt \in RoleJumps :
        /\ Len(calls) < MaxRoleCalls
        /\ Len(calls) >= 2 =>
              dt = calls[Len(calls)].ts - calls[Len(calls) - 1].ts
        /\ CheckCommand("health_check", "operator", dt)
        /\ UNCHANGED <<polVars, lockVars, pipeVars, scorerVars, otaVars, hookVars>>

SpecRoleActivity == InitRoleActivity /\ [][NextRoleActivity]_vars

\* The calls before call i, for the same role, with a timestamp in the hour
\* before call i's timestamp.
RoleCallsInTrailingHour(i) ==
    {j \in 1..(i - 1) :
        /\ calls[j].role = calls[i].role
        /\ calls[j].ts > calls[i].ts - 3600}

\* C11: unusual_role is returned exactly when the number of commands
\* previously checked for the role with timestamps in the hour before the
\* call exceeds 50 and the UTC hour is before 06:00 or after 22:00.
C11_UnusualRoleTrailingHour ==
    \A i \in 1..Len(calls) :
        LET hour == (calls[i].ts \div 3600) % 24
        IN  "unusual_role" \in TypesOf(i) <=>
                /\ Cardinality(RoleCallsInTrailingHour(i)) > 50
                /\ (hour < 6 \/ hour > 22)

\* The timestamps kept in a map of series.
StoredTimes(m) == UNION {{m[k][i] : i \in 1..Len(m[k])} : k \in DOMAIN m}

\* C12: right after a CheckCommand call with timestamp ts has returned, every
\* timestamp kept in every per-command and per-role series is later than
\* ts minus 5 minutes, and no tracked series is empty.
C12_RetentionAfterCall ==
    Len(calls) > 0 =>
        LET ts == calls[Len(calls)].ts
        IN  /\ \A t \in StoredTimes(commandCounts) : t > ts - RetentionSeconds
            /\ \A t \in StoredTimes(operatorActivity) : t > ts - RetentionSeconds
            /\ \A k \in DOMAIN commandCounts : Len(commandCounts[k]) > 0
            /\ \A k \in DOMAIN operatorActivity : Len(operatorActivity[k]) > 0

\* The series of the first call's command was emptied by the pruning of a
\* later call and is no longer tracked.
C12_Witness ==
    /\ Len(calls) = 2
    /\ calls[2].ts = calls[1].ts + 300
    /\ calls[1].command \notin DOMAIN commandCounts
    /\ calls[1].role \notin DOMAIN operatorActivity
    /\ calls[2].command \in DOMAIN commandCounts

\* Call j's observation is still stored when call i (after it) runs its
\* checks: no pruning from call j+1 to call i has dropped it.
Survives(j, i) ==
    \A k \in (j + 1)..i : calls[j].ts > calls[k].ts - RetentionSeconds

\* The observations call i's checks can see: those of the calls before it.
VisibleTo(i) == {j \in 1..(i - 1) : Survives(j, i)}

\* C13: the checks of a call read the pruned state of the earlier calls,
\* without the call's own observation, and the call then records exactly one
\* timestamp in its command's series and one in its role's series, whatever
\* anomalies it returned.
C13_PruneCheckRecord ==
    /\ \A i \in 1..Len(calls) :
          LET seen == VisibleTo(i)
              hour == (calls[i].ts \div 3600) % 24
          IN  /\ "rate_limit" \in TypesOf(i) <=>
                    Cardinality({j \in seen :
                        /\ calls[j].command = calls[i].command
                        /\ calls[j].ts > calls[i].ts - 60})
                      >= ThresholdFor(calls[i].command)
              /\ "command_burst" \in TypesOf(i) <=>
                    Cardinality({j \in seen :
                        calls[j].ts > calls[i].ts - config.BurstTimeWindow})
                      >= config.BurstThreshold
              /\ "unusual_role" \in TypesOf(i) <=>
                    /\ Cardinality({j \in seen :
                          /\ calls[j].role = calls[i].role
                          /\ calls[j].ts > calls[i].ts - 3600}) > 50
                    /\ (hour < 6 \/ hour > 22)
    /\ LET n == Len(calls)
       IN  /\ \A c \in {calls[j].command : j \in 1..n} :
                 Len(MapGet(commandCounts, c, <<>>)) =
                    Cardinality({j \in 1..n :
                        calls[j].command = c /\ Survives(j, n)})
           /\ \A r \in {calls[j].role : j \in 1..n} :
                 Len(MapGet(operatorActivity, r, <<>>)) =
                    Cardinality({j \in 1..n :
                        calls[j].role = r /\ Survives(j, n)})

\* The second deorbit within a minute returned rate_limit (its check saw one
\* earlier observation) and was recorded all the same.
C13_Witness ==
    /\ Len(calls) = 2
    /\ calls[1].command = "deorbit"
    /\ calls[2].command = "deorbit"
    /\ "rate_limit" \notin TypesOf(1)
    /\ "rate_limit" \in TypesOf(2)
    /\ Len(MapGet(commandCounts, "deorbit", <<>>)) = 2
    /\ Len(MapGet(operatorActivity, calls[2].role, <<>>)) >= 1

\* ---------------------------------------------------------------------------
\* CheckCommand step by step, called by concurrent request goroutines.
\* Each goroutine reads the clock in the handler, then calls CheckCommand,
\* which holds d.mu from its first statement until it returns.

CheckerCommands == {"deorbit", "health_check"}

ClockJumps == {0, 1, 300}

InitDetectorConcurrent ==
    /\ InitEngine
    /\ InitCheckers
    /\ InitClient
    /\ InitManager
    /\ InitHandler
    /\ InitScorer
    /\ InitDetector(ZeroConfig, 8 * SecondsPerHour)

\* timestamp := time.Now().UTC() in the handler, before the call.
ReadClock(p, command, role, dt) ==
    /\ dpc[p] = "idle"
    /\ now' = now + dt
    /\ dargs' = [dargs EXCEPT ![p] = [command |-> command, role |-> role,
                                      ts |-> now + dt]]
    /\ dpc' = [dpc EXCEPT ![p] = "ready"]
    /\ UNCHANGED <<config, commandCounts, operatorActivity, calls, mu, danoms,
                   polVars, pipeVars, scorerVars, otaVars, hookVars>>

LockNoExclusion(p) ==
    /\ dpc[p] = "ready"
    /\ mu' = p
    /\ dpc' = [dpc EXCEPT ![p] = "prune"]
    /\ UNCHANGED <<detVars, dargs, danoms,
                   polVars, pipeVars, scorerVars, otaVars, hookVars>>

\* d.mu.Lock(): blocks while another goroutine holds the mutex.
Lock(p) ==
    /\ dpc[p] = "ready"
    /\ mu = 0
    /\ mu' = p
    /\ dpc' = [dpc EXCEPT ![p] = "prune"]
    /\ UNCHANGED <<detVars, dargs, danoms,
                   polVars, pipeVars, scorerVars, otaVars, hookVars>>

\* d.cleanup(timestamp.Add(-5 * time.Minute))
Prune(p) ==
    /\ dpc[p] = "prune"
    /\ commandCounts' = cleanup(commandCounts, dargs[p].ts - RetentionSeconds)
    /\ operatorActivity' =
           cleanup(operatorActivity, dargs[p].ts - RetentionSeconds)
    /\ dpc' = [dpc EXCEPT ![p] = "check"]
    /\ UNCHANGED <<config, now, calls, mu, dargs, danoms,
                   polVars, pipeVars, scorerVars, otaVars, hookVars>>

\* The four checks, on the maps as they are now.
Check(p) ==
    /\ dpc[p] = "check"
    /\ danoms' = [danoms EXCEPT ![p] =
                      CheckAnomalies(config, commandCounts, operatorActivity,
                                     dargs[p].command, dargs[p].role,
                                     dargs[p].ts)]
    /\ dpc' = [dpc EXCEPT ![p] = "record"]
    /\ UNCHANGED <<detVars, mu, dargs,
                   polVars, pipeVars, scorerVars, otaVars, hookVars>>

\* d.recordCommand(command, operatorRole, timestamp)
Record(p) ==
    /\ dpc[p] = "record"
    /\ commandCounts' =
           recordCommand(commandCounts, dargs[p].command, dargs[p].ts)
    /\ operatorActivity' =
           recordCommand(operatorActivity, dargs[p].role, dargs[p].ts)
    /\ calls' = Append(calls, [command |-> dargs[p].command,
                               role |-> dargs[p].role, ts |-> dargs[p].ts,
                               anomalies |-> danoms[p]])
    /\ dpc' = [dpc EXCEPT ![p] = "unlock"]
    /\ UNCHANGED <<config, now, mu, dargs, danoms,
                   polVars, pipeVars, scorerVars, otaVars, hookVars>>

\* defer d.mu.Unlock(), then return anomalies.
Unlock(p) ==
    /\ dpc[p] = "unlock"
    /\ mu' = 0
    /\ dpc' = [dpc EXCEPT ![p] = "done"]
    /\ UNCHANGED <<detVars, dargs, danoms,
                   polVars, pipeVars, scorerVars, otaVars, hookVars>>

NextDetectorConcurrent ==
    \/ \E p \in Checkers, command \in CheckerCommands, dt \in ClockJumps :
           ReadClock(p, command, "operator", dt)
    \/ \E p \in Checkers : Lock(p)
    \/ \E p \in Checkers : Prune(p)
    \/ \E p \in Checkers : Check(p)
    \/ \E p \in Checkers : Record(p)
    \/ \E p \in Checkers : Unlock(p)

SpecDetectorConcurrent ==
    InitDetectorConcurrent /\ [][NextDetectorConcurrent]_vars

\* The detector's two maps after the first n recorded calls were made one
\* after the other, each running to completion before the next starts.
RECURSIVE SequentialState(_)
SequentialState(n) ==
    IF n = 0
    THEN [counts |-> EmptyMap, activity |-> EmptyMap]
    ELSE LET s == SequentialState(n - 1)
             c == calls[n]
             cutoff == c.ts - RetentionSeconds
         IN  [counts |-> recordCommand(cleanup(s.counts, cutoff),
                                       c.command, c.ts),
              activity |-> recordCommand(cleanup(s.activity, cutoff),
                                         c.role, c.ts)]

\* What the n-th recorded call returns in that sequential execution.
SequentialAnomalies(n) ==
    LET s == SequentialState(n - 1)
        c == calls[n]
        cutoff == c.ts - RetentionSeconds
    IN  CheckAnomalies(config, cleanup(s.counts, cutoff),
                       cleanup(s.activity, cutoff), c.command, c.role, c.ts)

\* The number of timestamps held in a map of series.
RECURSIVE TotalStored(_)
TotalStored(m) ==
    IF DOMAIN m = {} THEN 0
    ELSE LET k == CHOOSE x \in DOMAIN m : TRUE
         IN  Len(m[k]) + TotalStored([y \in DOMAIN m \ {k} |-> m[y]])

\* The recorded calls for one command.
CallsFor(command) == {i \in 1..Len(calls) : calls[i].command = command}

\* No recorded call is stamped five minutes or more after call i, so that
\* nothing has pruned the observation of call i.
NeverPruned(i) ==
    \A j \in 1..Len(calls) : calls[j].ts - calls[i].ts < RetentionSeconds

\* C14: whatever the interleaving of concurrent CheckCommand calls, every
\* call returns the anomalies it returns in the sequential execution of the
\* calls in the order they took the lock, and between calls the maps are the
\* maps of that sequential execution; hence of N+1 unpruned calls for one
\* command with threshold N, stamped less than a minute apart, at least one
\* returns rate_limit, and every unpruned call has left its observation.
C14_CheckCommandAtomic ==
    /\ \A i \in 1..Len(calls) : calls[i].anomalies = SequentialAnomalies(i)
    /\ mu = 0 =>
          /\ commandCounts = SequentialState(Len(calls)).counts
          /\ operatorActivity = SequentialState(Len(calls)).activity
          /\ (\A i \in 1..Len(calls) : NeverPruned(i)) =>
                 /\ TotalStored(commandCounts) = Len(calls)
                 /\ TotalStored(operatorActivity) = Len(calls)
    /\ \A command \in CheckerCommands :
          LET S == CallsFor(command)
              N == ThresholdFor(command)
          IN  (/\ Cardinality(S) >= N + 1
               /\ \A i \in S : NeverPruned(i)
               /\ \A i, j \in S : calls[i].ts - calls[j].ts < SecondsPerMinute)
              => \E i \in S : "rate_limit" \in TypesOf(i)

\* Two goroutines read the clock in one order and took the lock in the other,
\* both for deorbit (threshold 1) in the same minute, and both have returned.
C14_Witness ==
    /\ \A p \in Checkers : dpc[p] = "done"
    /\ Len(calls) = NumCheckers
    /\ \A i \in 1..Len(calls) : calls[i].command = "deorbit"
    /\ calls[1].ts > calls[2].ts
    /\ calls[1].ts - calls[2].ts < SecondsPerMinute
    /\ "rate_limit" \in TypesOf(2)

(***************************************************************************)
(* POST /command: the command pipeline                                     *)
(***************************************************************************)

MaxRequests == 2

\* The net/http status codes the handler answers with.
StatusOK == 200

StatusBadRequest == 400

StatusUnauthorized == 401

StatusForbidden == 403

StatusInternalServerError == 500

\* Authorization headers: absent, or a scheme prefix followed by a token.
NoToken == [prefix |-> "", rest |-> ""]

Tokens ==
    {NoToken,
     [prefix |-> "Bearer ", rest |-> "admin-token"],
     [prefix |-> "Bearer ", rest |-> "engineer-token"],
     [prefix |-> "Basic ", rest |-> "admin-token"]}

\* authMiddleware's role mapping: operator unless the header is "Bearer "
\* followed by one of the two known tokens.
RoleOfToken(token) ==
    IF token.prefix = "Bearer " /\ token.rest # ""
    THEN IF token.rest = "admin-token" THEN "admin"
         ELSE IF token.rest = "engineer-token" THEN "engineer"
         ELSE "operator"
    ELSE "operator"

PipelineCommands == {"deorbit", "health_check"}

\* Request bodies: JSON that does not parse, JSON without the required
\* command field, and well-formed commands.
Payloads ==
    {[wellFormed |-> FALSE, command |-> ""],
     [wellFormed |-> TRUE, command |-> ""]}
        \cup {[wellFormed |-> TRUE, command |-> c] : c \in PipelineCommands}

\* c.ShouldBindJSON(&req) succeeds.
Binds(payload) == payload.wellFormed /\ payload.command # ""

\* Values of the MISSION_PHASE environment variable.
MissionPhaseEnv == {"", "critical", "safe_mode"}

PipelineJumps == {1, 60}

PipelineStartTimes == {8 * SecondsPerHour, 23 * SecondsPerHour}

\* What one sendEventToSOC call can come to: nothing is sent without a URL;
\* otherwise the post fails, or is answered with a status other than 201,
\* or is answered 201, none of which is reported to the caller; or the SOC
\* never answers, and http.Post, on the default client that has no
\* timeout, does not return.
sendEventToSOC(socURL) ==
    IF socURL THEN {"post_error", "bad_status", "created", "no_answer"}
    ELSE {"skipped"}

\* Where the handler is after a call of sendEventToSOC: at the next
\* statement, or still inside the call.
AfterSend(outcome, next) == IF outcome = "no_answer" THEN "blocked" ELSE next

LogLine(eventType, command, role) ==
    [kind |-> "log", eventType |-> eventType, command |-> command,
     operatorRole |-> role, outcome |-> "written"]

AuditEvent(eventType, command, role, outcome) ==
    [kind |-> "audit", eventType |-> eventType, command |-> command,
     operatorRole |-> role, outcome |-> outcome]

ForwardCall(command, outcome) ==
    [kind |-> "forward", eventType |-> "command", command |-> command,
     operatorRole |-> "", outcome |-> outcome]

\* The CommandContext the handler builds for Evaluate.
policyCtx ==
    [Command |-> req.command, OperatorRole |-> req.role,
     MissionPhase |-> IF req.missionPhase = "" THEN "normal"
                      ELSE req.missionPhase]

InitPipeline ==
    /\ InitEngine
    /\ InitCheckers
    /\ InitClient
    /\ InitManager
    /\ InitScorer
    /\ \E start \in PipelineStartTimes : InitDetector(ZeroConfig, start)
    /\ hpc = "idle"
    /\ \E phase \in MissionPhaseEnv, url \in BOOLEAN :
           req = [NoRequest EXCEPT !.missionPhase = phase, !.socURL = url]
    /\ hAnoms = <<>>
    /\ hDecision = NoDecision
    /\ trace = <<>>
    /\ response = NoResponse

\* authMiddleware without an Authorization header: 401, the handler is not run.
Unauthorized ==
    /\ hpc = "idle"
    /\ response' = [NoResponse EXCEPT !.code = StatusUnauthorized,
                                      !.error = "missing authorization token"]
    /\ hpc' = "done"
    /\ UNCHANGED <<detVars, req, hAnoms, hDecision, trace,
                   polVars, lockVars, scorerVars, otaVars, hookVars>>

BadRequestAfterDetect(token, payload) ==
    /\ hpc = "idle"
    /\ token # NoToken
    /\ ~Binds(payload)
    /\ Len(calls) < MaxRequests
    /\ CheckCommand(payload.command, RoleOfToken(token), 1)
    /\ response' = [NoResponse EXCEPT !.code = StatusBadRequest,
                                      !.error = "bind"]
    /\ hpc' = "done"
    /\ UNCHANGED <<req, hAnoms, hDecision, trace,
                   polVars, lockVars, scorerVars, otaVars, hookVars>>

\* The body does not bind to a CommandRequest: 400 and return.
BadRequest(token, payload) ==
    /\ hpc = "idle"
    /\ token # NoToken
    /\ ~Binds(payload)
    /\ response' = [NoResponse EXCEPT !.code = StatusBadRequest, !.error = "bind"]
    /\ hpc' = "done"
    /\ UNCHANGED <<detVars, req, hAnoms, hDecision, trace,
                   polVars, lockVars, scorerVars, otaVars, hookVars>>

DetectWithoutRecord(token, payload, dt) ==
    LET role == RoleOfToken(token)
        ts == now + dt
        counts == cleanup(commandCounts, ts - RetentionSeconds)
        activity == cleanup(operatorActivity, ts - RetentionSeconds)
        anomalies == CheckAnomalies(config, counts, activity,
                                    payload.command, role, ts)
    IN  /\ hpc = "idle"
        /\ token # NoToken
        /\ Binds(payload)
        /\ Len(calls) < MaxRequests
        /\ req' = [req EXCEPT !.valid = TRUE, !.command = payload.command,
                              !.role = role]
        /\ now' = ts
        /\ commandCounts' = counts
        /\ operatorActivity' = activity
        /\ calls' = Append(calls, [command |-> payload.command, role |-> role,
                                   ts |-> ts, anomalies |-> anomalies])
        /\ hAnoms' = anomalies
        /\ hpc' = "anomalies"
        /\ UNCHANGED <<config, hDecision, trace, response,
                       polVars, lockVars, scorerVars, otaVars, hookVars>>

\* A valid command: read the role and the clock and call CheckCommand.
Detect(token, payload, dt) ==
    /\ hpc = "idle"
    /\ token # NoToken
    /\ Binds(payload)
    /\ Len(calls) < MaxRequests
    /\ req' = [req EXCEPT !.valid = TRUE, !.command = payload.command,
                          !.role = RoleOfToken(token)]
    /\ CheckCommand(payload.command, RoleOfToken(token), dt)
    /\ hAnoms' = calls'[Len(calls')].anomalies
    /\ hpc' = "anomalies"
    /\ UNCHANGED <<hDecision, trace, response,
                   polVars, lockVars, scorerVars, otaVars, hookVars>>

EmitAnomalyLogOnly(outcome) ==
    /\ hpc = "anomalies"
    /\ hAnoms # <<>>
    /\ trace' = Append(trace, LogLine("anomaly_detected", Head(hAnoms).Command,
                                      Head(hAnoms).OperatorRole))
    /\ hAnoms' = Tail(hAnoms)
    /\ UNCHANGED <<detVars, hpc, req, hDecision, response,
                   polVars, lockVars, scorerVars, otaVars, hookVars>>

\* One iteration of the loop over the anomalies: log it, send it to the SOC.
EmitAnomaly(outcome) ==
    /\ hpc = "anomalies"
    /\ hAnoms # <<>>
    /\ trace' = trace \o
           <<LogLine("anomaly_detected", Head(hAnoms).Command,
                     Head(hAnoms).OperatorRole),
             AuditEvent("anomaly_detected", Head(hAnoms).Command,
                        Head(hAnoms).OperatorRole, outcome)>>
    /\ hAnoms' = Tail(hAnoms)
    /\ hpc' = AfterSend(outcome, "anomalies")
    /\ UNCHANGED <<detVars, req, hDecision, response,
                   polVars, lockVars, scorerVars, otaVars, hookVars>>

\* The response to a command the policy denied.
Denied ==
    [NoResponse EXCEPT !.code = StatusForbidden, !.status = "denied",
                       !.decision = "denied"]

EvaluatePolicyBlockOnAnomaly(outcome) ==
    LET d == Evaluate(policyCtx)
        blocked == ~d.Allowed \/ calls[Len(calls)].anomalies # <<>>
    IN  /\ hpc = "anomalies"
        /\ hAnoms = <<>>
        /\ hDecision' = d
        /\ trace' = trace \o
               <<LogLine("policy_decision", req.command, req.role),
                 AuditEvent("policy_decision", req.command, req.role, outcome)>>
        /\ IF outcome = "no_answer"
           THEN response' = response /\ hpc' = "blocked"
           ELSE IF blocked
           THEN response' = Denied /\ hpc' = "done"
           ELSE response' = response /\ hpc' = "forward"
        /\ UNCHANGED <<detVars, req, hAnoms,
                       polVars, lockVars, scorerVars, otaVars, hookVars>>

EvaluatePolicyFatalAudit(outcome) ==
    LET d == Evaluate(policyCtx)
    IN  /\ hpc = "anomalies"
        /\ hAnoms = <<>>
        /\ hDecision' = d
        /\ trace' = trace \o
               <<LogLine("policy_decision", req.command, req.role),
                 AuditEvent("policy_decision", req.command, req.role, outcome)>>
        /\ IF outcome \notin {"created", "skipped"}
           THEN response' = [NoResponse EXCEPT !.code = StatusInternalServerError, !.error = "audit"]
                /\ hpc' = "done"
           ELSE IF ~d.Allowed
           THEN response' = Denied /\ hpc' = "done"
           ELSE response' = response /\ hpc' = "forward"
        /\ UNCHANGED <<detVars, req, hAnoms,
                       polVars, lockVars, scorerVars, otaVars, hookVars>>

\* After the loop: Evaluate, log the decision, send it to the SOC, and
\* answer 403 at once when it is a denial.
EvaluatePolicy(outcome) ==
    LET d == Evaluate(policyCtx)
    IN  /\ hpc = "anomalies"
        /\ hAnoms = <<>>
        /\ hDecision' = d
        /\ trace' = trace \o
               <<LogLine("policy_decision", req.command, req.role),
                 AuditEvent("policy_decision", req.command, req.role, outcome)>>
        /\ IF outcome = "no_answer"
           THEN response' = response /\ hpc' = "blocked"
           ELSE IF ~d.Allowed
           THEN response' = Denied /\ hpc' = "done"
           ELSE response' = response /\ hpc' = "forward"
        /\ UNCHANGED <<detVars, req, hAnoms,
                       polVars, lockVars, scorerVars, otaVars, hookVars>>

\* The response to a command that was forwarded.
Success ==
    [NoResponse EXCEPT !.code = StatusOK, !.status = "success",
                       !.decision = "allowed"]

ForwardErrorAsDenied ==
    /\ hpc = "forward"
    /\ trace' = trace \o <<ForwardCall(req.command, "error"),
                           LogLine("forward_error", req.command, "")>>
    /\ response' = Denied
    /\ hpc' = "done"
    /\ UNCHANGED <<detVars, req, hAnoms, hDecision,
                   polVars, lockVars, scorerVars, otaVars, hookVars>>

ForwardErrorRetry ==
    /\ hpc = "forward"
    /\ trace' = trace \o <<ForwardCall(req.command, "error"),
                           ForwardCall(req.command, "error"),
                           LogLine("forward_error", req.command, "")>>
    /\ response' = [NoResponse EXCEPT
                        !.code = StatusInternalServerError,
                        !.error = "failed to forward command to satellite"]
    /\ hpc' = "done"
    /\ UNCHANGED <<detVars, req, hAnoms, hDecision,
                   polVars, lockVars, scorerVars, otaVars, hookVars>>

\* forwardToSatellite returns an error: log forward_error and answer 500.
ForwardError ==
    /\ hpc = "forward"
    /\ trace' = trace \o <<ForwardCall(req.command, "error"),
                           LogLine("forward_error", req.command, "")>>
    /\ response' = [NoResponse EXCEPT
                        !.code = StatusInternalServerError,
                        !.error = "failed to forward command to satellite"]
    /\ hpc' = "done"
    /\ UNCHANGED <<detVars, req, hAnoms, hDecision,
                   polVars, lockVars, scorerVars, otaVars, hookVars>>

\* forwardToSatellite succeeds: log, send command_forwarded, answer 200.
ForwardOk(outcome) ==
    /\ hpc = "forward"
    /\ trace' = trace \o
           <<ForwardCall(req.command, "ok"),
             LogLine("command_forwarded", req.command, req.role),
             AuditEvent("command_forwarded", req.command, req.role, outcome)>>
    /\ response' = IF outcome = "no_answer" THEN response ELSE Success
    /\ hpc' = AfterSend(outcome, "done")
    /\ UNCHANGED <<detVars, req, hAnoms, hDecision,
                   polVars, lockVars, scorerVars, otaVars, hookVars>>

\* The satellite never answers: http.Post in forwardToSatellite, on the
\* default client that has no timeout, does not return.
ForwardBlocks ==
    /\ hpc = "forward"
    /\ trace' = Append(trace, ForwardCall(req.command, "no_answer"))
    /\ hpc' = "blocked"
    /\ UNCHANGED <<detVars, req, hAnoms, hDecision, response,
                   polVars, lockVars, scorerVars, otaVars, hookVars>>

\* The handler has returned; the next request starts from a fresh handler.
HandlerReturn ==
    /\ hpc = "done"
    /\ hpc' = "idle"
    /\ req' = [NoRequest EXCEPT !.missionPhase = req.missionPhase,
                                !.socURL = req.socURL]
    /\ hAnoms' = <<>>
    /\ hDecision' = NoDecision
    /\ trace' = <<>>
    /\ response' = NoResponse
    /\ UNCHANGED <<detVars,
                   polVars, lockVars, scorerVars, otaVars, hookVars>>

NextPipeline ==
    \/ Unauthorized
    \/ \E token \in Tokens, payload \in Payloads : BadRequest(token, payload)
    \/ \E token \in Tokens, payload \in Payloads, dt \in PipelineJumps :
           Detect(token, payload, dt)
    \/ \E outcome \in sendEventToSOC(req.socURL) : EmitAnomaly(outcome)
    \/ \E outcome \in sendEventToSOC(req.socURL) : EvaluatePolicy(outcome)
    \/ ForwardError
    \/ \E outcome \in sendEventToSOC(req.socURL) : ForwardOk(outcome)
    \/ ForwardBlocks
    \/ HandlerReturn

SpecPipeline == InitPipeline /\ [][NextPipeline]_vars

\* ---------------------------------------------------------------------------
\* Properties of the pipeline.

\* The handler has written its response to a command that passed binding.
Processed == hpc = "done" /\ req.valid

\* The anomalies CheckCommand returned for the command being served.
Returned == calls[Len(calls)].anomalies

\* The calls of forwardToSatellite the handler made, in order.
Forwards == SelectSeq(trace, LAMBDA e : e.kind = "forward")

\* What the handler handed to its collaborators, in order: the events passed
\* to sendEventToSOC and the calls of forwardToSatellite.
Offered == SelectSeq(trace, LAMBDA e : e.kind # "log")

\* C15: for a valid command the handler forwards exactly when the decision of
\* Evaluate on the command's context is allowed, whatever anomalies
\* CheckCommand returned for it: allowed with anomalies is forwarded, denied
\* without anomalies is not.
C15_AnomaliesNeverBlock ==
    Processed =>
        /\ hDecision = Evaluate(policyCtx)
        /\ (Len(Forwards) > 0) <=> hDecision.Allowed
        /\ (Returned # <<>> /\ Evaluate(policyCtx).Allowed)
               => Len(Forwards) > 0
        /\ (Returned = <<>> /\ ~Evaluate(policyCtx).Allowed)
               => Len(Forwards) = 0

\* An allowed command for which CheckCommand returned an anomaly was
\* forwarded and answered with success.
C15_Witness ==
    /\ Processed
    /\ Returned # <<>>
    /\ hDecision.Allowed
    /\ Len(Forwards) = 1
    /\ response = Success

\* C16: at no point of the handler has a command been forwarded whose
\* decision is not allowed, nor any command more than once; when the handler
\* returns, a denied command was not forwarded and is answered 403 "denied",
\* and an allowed command was forwarded exactly once.
C16_ForwardIffAllowedOnce ==
    /\ Len(Forwards) <= IF hDecision.Allowed THEN 1 ELSE 0
    /\ Processed =>
          /\ ~hDecision.Allowed => (Len(Forwards) = 0 /\ response = Denied)
          /\ hDecision.Allowed => Len(Forwards) = 1

\* A command was denied by a rule, answered with the denial, never forwarded.
C16_Witness ==
    /\ Processed
    /\ ~hDecision.Allowed
    /\ hDecision.RuleID # ""
    /\ response = Denied
    /\ Len(Forwards) = 0

\* The events of one type passed to sendEventToSOC so far.
AuditsOf(eventType) ==
    SelectSeq(trace, LAMBDA e : e.kind = "audit" /\ e.eventType = eventType)

\* C17: when the handler returns from a valid command it has made one
\* decision and has passed to sendEventToSOC, first, one anomaly_detected
\* event per anomaly CheckCommand returned, in the order returned, then one
\* policy_decision event for the command; forwardToSatellite is called only
\* after these, and only when the decision is allowed.
C17_AuditOrder ==
    /\ (Len(Forwards) > 0) => Len(AuditsOf("policy_decision")) = 1
    /\ Processed =>
          LET n == Len(Returned)
          IN  /\ hDecision = Evaluate(policyCtx)
              /\ Len(AuditsOf("anomaly_detected")) = n
              /\ Len(AuditsOf("policy_decision")) = 1
              /\ Len(Offered) >= n + 1
              /\ \A k \in 1..n :
                    /\ Offered[k].kind = "audit"
                    /\ Offered[k].eventType = "anomaly_detected"
                    /\ Offered[k].command = Returned[k].Command
                    /\ Offered[k].operatorRole = Returned[k].OperatorRole
              /\ Offered[n + 1] \in
                     {AuditEvent("policy_decision", req.command, req.role, o) :
                          o \in sendEventToSOC(req.socURL)}
              /\ hDecision.Allowed =>
                     (Len(Offered) >= n + 2 /\ Offered[n + 2].kind = "forward")
              /\ ~hDecision.Allowed => Len(Offered) = n + 1

\* A command with two anomalies was allowed: both anomaly events, then the
\* decision event, then the forward.
C17_Witness ==
    /\ Processed
    /\ Len(Returned) = 2
    /\ hDecision.Allowed
    /\ Len(Offered) >= 4
    /\ Offered[3].eventType = "policy_decision"
    /\ Offered[4].kind = "forward"

\* The handler's calls of forwardToSatellite that returned an error.
FailedForwards == SelectSeq(trace, LAMBDA e : e.kind = "forward" /\ e.outcome = "error")

\* The position of the first trace entry satisfying a test, 0 if none.
FirstIndex(Test(_)) ==
    IF \E k \in 1..Len(trace) : Test(trace[k])
    THEN CHOOSE k \in 1..Len(trace) :
             Test(trace[k]) /\ \A j \in 1..(k - 1) : ~Test(trace[j])
    ELSE 0

\* C19: when forwardToSatellite fails for an allowed command, the handler
\* logs forward_error and answers 500 with an error body, which is not the
\* 403 "denied" answer of a policy denial, and the policy_decision event of
\* the command was passed to sendEventToSOC before the forward was tried.
C19_ForwardErrorDistinct ==
    (hpc = "done" /\ Len(FailedForwards) > 0) =>
        LET IsDecision(e) == e.kind = "audit" /\ e.eventType = "policy_decision"
            IsForward(e) == e.kind = "forward"
            IsErrorLog(e) == e.kind = "log" /\ e.eventType = "forward_error"
        IN  /\ hDecision.Allowed
            /\ response.code = StatusInternalServerError
            /\ response.decision # "denied"
            /\ response.status # "denied"
            /\ response.error # ""
            /\ FirstIndex(IsErrorLog) > 0
            /\ FirstIndex(IsDecision) > 0
            /\ FirstIndex(IsDecision) < FirstIndex(IsForward)

\* The forward of an allowed command failed and the handler answered 500.
C19_Witness ==
    /\ Processed
    /\ hDecision.Allowed
    /\ Len(FailedForwards) = 1
    /\ Len(AuditsOf("policy_decision")) = 1
    /\ response.code = StatusInternalServerError

\* The deliveries to the SOC that did not end with a 201.
FailedAudits ==
    SelectSeq(trace, LAMBDA e : e.kind = "audit" /\ e.outcome # "created")

\* The response the handler gives to a valid command as a function of the
\* decision and of the result of the forward alone.
ResponseFor(d, forwards) ==
    IF ~d.Allowed THEN Denied
    ELSE IF forwards = <<ForwardCall(req.command, "ok")>> THEN Success
    ELSE [NoResponse EXCEPT !.code = StatusInternalServerError,
                            !.error = "failed to forward command to satellite"]

\* C20: whatever becomes of the deliveries to the SOC (no URL configured,
\* post failed, status other than 201, or 201), the handler goes on: its
\* decision is that of Evaluate, it forwards once exactly when allowed, and
\* its response is determined by the decision and the forward result alone.
C20_AuditFailureNotFatal ==
    /\ (hpc = "anomalies" /\ Len(AuditsOf("anomaly_detected")) > 0)
           => response = NoResponse
    /\ Processed =>
          /\ hDecision = Evaluate(policyCtx)
          /\ Len(Forwards) = IF hDecision.Allowed THEN 1 ELSE 0
          /\ response = ResponseFor(hDecision, Forwards)

\* Deliveries failed both ways and the command was still forwarded and
\* answered with success.
C20_Witness ==
    /\ Processed
    /\ \E k \in 1..Len(FailedAudits) : FailedAudits[k].outcome = "post_error"
    /\ \E k \in 1..Len(FailedAudits) : FailedAudits[k].outcome = "bad_status"
    /\ Forwards = <<ForwardCall(req.command, "ok")>>
    /\ response = Success

\* C18: when the handler returns from a valid command, the scorer's history
\* holds one observation per valid command processed so far, allowed or
\* denied.
C18_ScorerRecordsEveryCommand ==
    Processed => Len(history) = Len(calls)

\* C21: the handler is never left waiting without end inside a call to a
\* collaborator that does not answer: every call of sendEventToSOC and of
\* forwardToSatellite is abandoned after a bounded time, so that the handler
\* goes on to write a response.
C21_NeverBlockedOnCollaborator == hpc # "blocked"

\* The handler has answered 400 to a body that did not bind.
Rejected == hpc = "done" /\ response.code = StatusBadRequest

\* C22: a request whose body does not bind to a CommandRequest is answered
\* 400 in one step that leaves the detector's maps and its record of calls
\* as they were; when the handler returns from it, no anomaly was looked
\* for, no decision was made, and nothing was logged, sent to the SOC or
\* forwarded.
C22_MalformedRejectedEarly ==
    /\ [](Rejected =>
              /\ ~req.valid
              /\ hAnoms = <<>>
              /\ hDecision = NoDecision
              /\ trace = <<>>)
    /\ [][(hpc = "idle" /\ response'.code = StatusBadRequest) =>
              /\ hpc' = "done"
              /\ commandCounts' = commandCounts
              /\ operatorActivity' = operatorActivity
              /\ calls' = calls
              /\ now' = now]_vars

\* A body that did not bind was rejected by a gateway whose detector already
\* holds the observation of an earlier command.
C22_Witness ==
    /\ Rejected
    /\ Len(calls) > 0
    /\ commandCounts # EmptyMap

(***************************************************************************)
(* The scorer as a state machine                                           *)
(***************************************************************************)

MaxRecords == 2

\* RecordCommand starts saveModel whenever the history length is a multiple
\* of this.
SaveEvery == 100

ScorerCommands == {"health_check", "deorbit"}

ScorerRoles == {"operator", "admin"}

ScorerJumps == {1}

ScoringJumps == {0, 400}

\* The first saved observation: a Thursday, 08:00:00.
SavedStart == 8 * SecondsPerHour

SavedEntries == 9

\* The model an earlier run saved after n health_check commands by the
\* operator, one per second.
RECURSIVE SavedModel(_)
SavedModel(n) ==
    IF n = 0 THEN EmptyModel
    ELSE Recorded(SavedModel(n - 1), DocMaxHistory, "health_check", "operator",
                  SavedStart + n)

\* The same model file with the deviation fields filled in by a trainer:
\* RecordCommand itself leaves them at zero.
TrainedModel(n) ==
    [SavedModel(n) EXCEPT
        !.commandBaselines["health_check"].StdHourOfDay = 1,
        !.commandBaselines["health_check"].AvgTimeBetween = 1,
        !.commandBaselines["health_check"].StdTimeBetween = 1]

LoadedModels == {EmptyModel, SavedModel(SavedEntries), TrainedModel(SavedEntries)}

HistoryCaps == {1, 2, DocMaxHistory}

\* Just after the saved observations, two seconds before midnight of the
\* same day, and the Saturday after at 03:00.
ScorerStartTimes ==
    {SavedStart + SavedEntries, SecondsPerDay - 2,
     2 * SecondsPerDay + 3 * SecondsPerHour}

InitScorerMachine ==
    /\ InitEngine
    /\ InitCheckers
    /\ InitClient
    /\ InitManager
    /\ InitHandler
    /\ \E start \in ScorerStartTimes : InitDetector(ZeroConfig, start)
    /\ \E loaded \in LoadedModels, cap \in HistoryCaps :
           InitScorerWith(loaded, TRUE, cap)

\* The timestamp of the newest history entry, -1 when there is none.
LastRecordTime ==
    IF history = <<>> THEN -1 ELSE history[Len(history)].Timestamp

DetectAnomalyLearning(cmd, role, dt) ==
    LET timestamp == now + dt
        m == Recorded(Model, maxHistorySize, cmd, role, timestamp)
    IN  /\ dt > 0 => lastScore.timestamp <= LastRecordTime
        /\ now' = timestamp
        /\ lastScore' = [cmd |-> cmd, role |-> role, timestamp |-> timestamp,
                         result |-> AnomalyScore(Model, cmd, role, timestamp)]
        /\ history' = history
        /\ commandBaselines' = m.commandBaselines
        /\ roleBaselines' = m.roleBaselines
        /\ UNCHANGED <<maxHistorySize, modelPath, recorded, recordLog,
                       fromFile, savers, saves>>
        /\ UNCHANGED <<config, commandCounts, operatorActivity, calls,
                       polVars, lockVars, pipeVars, otaVars, hookVars>>

\* DetectAnomaly, under the read lock: reads the clock and scores the command
\* on the model as it is.  Between two RecordCommand calls the clock is let
\* advance under at most one DetectAnomaly call.
DetectAnomaly(cmd, role, dt) ==
    LET timestamp == now + dt
    IN  /\ dt > 0 => lastScore.timestamp <= LastRecordTime
        /\ now' = timestamp
        /\ lastScore' = [cmd |-> cmd, role |-> role, timestamp |-> timestamp,
                         result |-> AnomalyScore(Model, cmd, role, timestamp)]
        /\ UNCHANGED <<history, commandBaselines, roleBaselines,
                       maxHistorySize, modelPath, recorded, recordLog,
                       fromFile, savers, saves>>
        /\ UNCHANGED <<config, commandCounts, operatorActivity, calls,
                       polVars, lockVars, pipeVars, otaVars, hookVars>>

\* RecordCommand, under the write lock, which it gets only while no saveModel
\* holds the read lock: reads the clock, appends to the history, evicts,
\* updates the baselines and starts saveModel at every SaveEvery-th length.
RecordCommand(cmd, role, dt) ==
    LET timestamp == now + dt
        m == Recorded(Model, maxHistorySize, cmd, role, timestamp)
        save == Len(m.history) % SaveEvery = 0
    IN  /\ savers.locked = 0 /\ savers.writing = 0
        /\ now' = timestamp
        /\ history' = m.history
        /\ commandBaselines' = m.commandBaselines
        /\ roleBaselines' = m.roleBaselines
        /\ recorded' = recorded + 1
        /\ recordLog' = Append(recordLog, <<cmd, role>>)
        /\ savers' = IF save THEN [savers EXCEPT !.spawned = @ + 1] ELSE savers
        /\ saves' = IF save THEN saves + 1 ELSE saves
        /\ UNCHANGED <<maxHistorySize, modelPath, fromFile, lastScore>>
        /\ UNCHANGED <<config, commandCounts, operatorActivity, calls,
                       polVars, lockVars, pipeVars, otaVars, hookVars>>

\* RecordCommand, for as many calls as a run makes.
RecordCommandBounded(cmd, role, dt) ==
    /\ recorded < MaxRecords
    /\ RecordCommand(cmd, role, dt)

NextScorer ==
    \/ \E cmd \in ScorerCommands, role \in ScorerRoles, dt \in ScorerJumps :
           RecordCommandBounded(cmd, role, dt)
    \/ \E cmd \in ScorerCommands, role \in ScorerRoles, dt \in ScoringJumps :
           DetectAnomaly(cmd, role, dt)

SpecScorer == InitScorerMachine /\ [][NextScorer]_vars

\* ---------------------------------------------------------------------------
\* Properties of the scorer.

\* The last DetectAnomaly call was made on the model as it is now: no
\* RecordCommand has been made since.
ScoredNow == lastScore # NoCall /\ lastScore.timestamp >= LastRecordTime

\* C23: a DetectAnomaly call made while the history holds fewer than 10
\* entries returns confidence 0.1, IsAnomaly false, score 0 and the action
\* collect_more_data, whatever the command, the role and the baselines.
C23_InsufficientHistory ==
    (ScoredNow /\ Len(history) < 10) =>
        /\ lastScore.result.Confidence = 1
        /\ ~lastScore.result.IsAnomaly
        /\ lastScore.result.Score = 0
        /\ lastScore.result.RecommendedAction = "collect_more_data"

\* A command never seen before was scored on a history of 9 entries.
C23_Witness ==
    /\ ScoredNow
    /\ Len(history) = 9
    /\ lastScore.cmd \notin DOMAIN commandBaselines
    /\ lastScore.result.RecommendedAction = "collect_more_data"

\* C25: the history never holds more than maxHistorySize entries, whether
\* the scorer started from a saved model or not.
C25_HistoryWithinCap == Len(history) <= maxHistorySize

\* C27: a DetectAnomaly call leaves the history and every baseline as they
\* were, and the baselines change only in a step that is a RecordCommand
\* call.
C27_DetectAnomalyReadOnly ==
    /\ [][lastScore' # lastScore =>
              /\ history' = history
              /\ commandBaselines' = commandBaselines
              /\ roleBaselines' = roleBaselines]_vars
    /\ [][(commandBaselines' # commandBaselines
               \/ roleBaselines' # roleBaselines)
              => (recorded' = recorded + 1 /\ lastScore' = lastScore)]_vars

\* A command was scored above zero on a history of at least 10 entries and
\* non-empty baselines.
C27_Witness ==
    /\ ScoredNow
    /\ Len(history) >= 10
    /\ lastScore.cmd \in DOMAIN commandBaselines
    /\ lastScore.result.Score > 0

\* Histogram h2 has every key of h1 with a count at least as large.
Enriches(h2, h1) ==
    \A k \in DOMAIN h1 : k \in DOMAIN h2 /\ h2[k] >= h1[k]

\* C28: in every step, every command baseline and every role baseline is
\* still there afterwards, and none of its counts has gone down: the
\* observation count, the role histogram, the command histogram and the hour
\* histogram.
C28_BaselinesMonotone ==
    [][/\ \A c \in DOMAIN commandBaselines :
              /\ c \in DOMAIN commandBaselines'
              /\ commandBaselines'[c].Count >= commandBaselines[c].Count
              /\ Enriches(commandBaselines'[c].TypicalRoles,
                          commandBaselines[c].TypicalRoles)
       /\ \A r \in DOMAIN roleBaselines :
              /\ r \in DOMAIN roleBaselines'
              /\ Enriches(roleBaselines'[r].TypicalCommands,
                          roleBaselines[r].TypicalCommands)
              /\ Enriches(roleBaselines'[r].TypicalHours,
                          roleBaselines[r].TypicalHours)]_vars

\* RecordCommand calls have evicted history entries of a command whose
\* baseline still counts them.
C28_Witness ==
    /\ recorded = MaxRecords
    /\ Len(history) >= maxHistorySize
    /\ \E c \in DOMAIN commandBaselines :
           commandBaselines[c].Count
               > Cardinality({i \in 1..Len(history) : history[i].Command = c})

\* C29: when a command A is recorded, the score of every other command B
\* that has a baseline of at least 9 observations, for every role, taken
\* right after the call, is the score B would get at that time on the model
\* without A's record.
C29_NoLeakIntoOtherCommand ==
    [][recorded' = recorded + 1 =>
          \A B \in DOMAIN commandBaselines \ {history'[Len(history')].Command} :
              commandBaselines[B].Count >= 9 =>
                  \A role \in ScorerRoles :
                      AnomalyScore([history |-> history',
                                    commandBaselines |-> commandBaselines',
                                    roleBaselines |-> roleBaselines'],
                                   B, role, now')
                          = AnomalyScore(Model, B, role, now')]_vars

\* ---------------------------------------------------------------------------
\* A long stream of one command at a steady pace, with the saveModel
\* goroutines RecordCommand starts; the stream is scored where it stops.

MaxStream == 100

\* Seconds between two recorded commands of the stream.
StreamPace == 6

StreamScoringJumps == {0, StreamPace - 1}

SmallCap == 5

\* A saved model of 8 health_check commands by the operator and one deorbit
\* by the admin, one per second from Thursday 12:00:01, with the deviation
\* fields of health_check filled in by a trainer.
MixedModel ==
    LET start == 12 * SecondsPerHour
        RECURSIVE Checks(_)
        Checks(n) ==
            IF n = 0 THEN EmptyModel
            ELSE Recorded(Checks(n - 1), DocMaxHistory, "health_check",
                          "operator", start + n)
        saved == Recorded(Checks(SavedEntries - 1), DocMaxHistory, "deorbit",
                          "admin", start + SavedEntries)
    IN  [saved EXCEPT
            !.commandBaselines["health_check"].StdHourOfDay = 1,
            !.commandBaselines["health_check"].AvgTimeBetween = 1,
            !.commandBaselines["health_check"].StdTimeBetween = 1]

\* Thursday 08:00 for a scorer that starts empty; the Friday after the saved
\* model, at 03:00, for the loaded one.
InitScorerStream ==
    /\ InitEngine
    /\ InitCheckers
    /\ InitClient
    /\ InitManager
    /\ InitHandler
    /\ \/ /\ InitDetector(ZeroConfig, SavedStart)
          /\ \/ InitScorerWith(EmptyModel, FALSE, SmallCap)
             \/ \E path \in BOOLEAN :
                    InitScorerWith(EmptyModel, path, DocMaxHistory)
       \/ /\ InitDetector(ZeroConfig, SecondsPerDay + 3 * SecondsPerHour)
          /\ InitScorerWith(MixedModel, TRUE, DocMaxHistory)

\* saveModel takes the read lock; RecordCommand, atomic here, never holds the
\* write lock at this point.
SaveRLock ==
    /\ savers.spawned > 0
    /\ savers' = [savers EXCEPT !.spawned = @ - 1, !.locked = @ + 1]
    /\ UNCHANGED <<history, maxHistorySize, commandBaselines, roleBaselines,
                   modelPath, recorded, recordLog, fromFile, lastScore,
                   saves>>
    /\ UNCHANGED <<detVars, polVars, lockVars, pipeVars, otaVars, hookVars>>

\* No model path: saveModel returns and its deferred RUnlock runs.
SaveSkip ==
    /\ savers.locked > 0
    /\ ~modelPath
    /\ savers' = [savers EXCEPT !.locked = @ - 1]
    /\ UNCHANGED <<history, maxHistorySize, commandBaselines, roleBaselines,
                   modelPath, recorded, recordLog, fromFile, lastScore,
                   saves>>
    /\ UNCHANGED <<detVars, polVars, lockVars, pipeVars, otaVars, hookVars>>

\* os.Create(d.modelPath) is called, the read lock held: the file is being
\* created and written from here on.
SaveCreate ==
    /\ savers.locked > 0
    /\ modelPath
    /\ savers' = [savers EXCEPT !.locked = @ - 1, !.writing = @ + 1]
    /\ UNCHANGED <<history, maxHistorySize, commandBaselines, roleBaselines,
                   modelPath, recorded, recordLog, fromFile, lastScore,
                   saves>>
    /\ UNCHANGED <<detVars, polVars, lockVars, pipeVars, otaVars, hookVars>>

\* The create or the encode has come back, with or without an error:
\* saveModel returns and its deferred RUnlock runs.
SaveDone ==
    /\ savers.writing > 0
    /\ savers' = [savers EXCEPT !.writing = @ - 1]
    /\ UNCHANGED <<history, maxHistorySize, commandBaselines, roleBaselines,
                   modelPath, recorded, recordLog, fromFile, lastScore,
                   saves>>
    /\ UNCHANGED <<detVars, polVars, lockVars, pipeVars, otaVars, hookVars>>

\* The next command of the stream, as long as the stream has not been
\* scored.
RecordCommandStream ==
    /\ recorded < MaxStream
    /\ lastScore = NoCall
    /\ RecordCommand("health_check", "operator", StreamPace)

NextScorerStream ==
    \/ RecordCommandStream
    \/ \E cmd \in ScorerCommands, role \in ScorerRoles,
          dt \in StreamScoringJumps : DetectAnomaly(cmd, role, dt)
    \/ SaveRLock
    \/ SaveSkip
    \/ SaveCreate
    \/ SaveDone

SpecScorerStream == InitScorerStream /\ [][NextScorerStream]_vars

\* ---------------------------------------------------------------------------
\* Claims about the scorer on a long stream.

\* Every observation the scorer was ever given, those of the loaded model
\* included: each one added 1 to the Count of its command.
Observations ==
    SumCounts([c \in DOMAIN commandBaselines |-> commandBaselines[c].Count])

ConfidenceOf(n) ==
    IF n < 10 THEN 1 ELSE IF n < 50 THEN 5 ELSE IF n < 200 THEN 7 ELSE 9

\* C24: the confidence DetectAnomaly returns is the step function of the
\* number of observations recorded, 0.1 below 10, 0.5 below 50, 0.7 below
\* 200 and 0.9 from there on, whatever the history cap.
C24_ConfidenceOfRecorded ==
    ScoredNow => lastScore.result.Confidence = ConfidenceOf(Observations)

C30_NoIOUnderLock == savers.writing = 0

\* C31: a model save is started exactly once per 100 recorded commands, also
\* once the history has reached its cap (scorer started without a saved
\* model).
C31_SaveEveryHundred ==
    Observations = recorded => saves = recorded \div SaveEvery

\* The sub-scores of the last DetectAnomaly call.
LastSubScores ==
    SubScores(Model, lastScore.cmd, lastScore.role, lastScore.timestamp)

\* Member of a sequence.
Has(seq, x) == \E i \in 1..Len(seq) : seq[i] = x

\* C32: with 10 observations or more, the command-pattern sub-score of a
\* command never recorded is 0.6 whatever the role, the hour and the timing;
\* it is named in the reasons and weighs 0.18 in the composite score.
C32_NewCommandScore ==
    (/\ ScoredNow
     /\ Len(history) >= MinHistory
     /\ lastScore.cmd \notin DOMAIN commandBaselines) =>
        /\ LastSubScores.command = NewCommandScore
        /\ Has(lastScore.result.Reasons, "unusual_command_pattern")
        /\ lastScore.result.Score >= 30 * NewCommandScore

\* deorbit is scored after 50 health_check commands.
C32_Witness ==
    /\ ScoredNow
    /\ recorded = 50
    /\ Len(history) = 50
    /\ lastScore.cmd = "deorbit"
    /\ "deorbit" \notin DOMAIN commandBaselines
    /\ Has(lastScore.result.Reasons, "unusual_command_pattern")

\* The history entries of one command, oldest first.
EntriesOf(c) == SelectSeq(history, LAMBDA e : e.Command = c)

\* C33: each CommandBaseline holds the running mean of the intervals between
\* the recorded commands of its command: while every observation of the
\* command is still in the history, the mean times the number of intervals
\* is the time from the first observation to the last.
C33_IntervalBaseline ==
    \A c \in DOMAIN commandBaselines :
        LET entries == EntriesOf(c)
            n == Len(entries)
        IN  (n >= 2 /\ commandBaselines[c].Count = n) =>
                commandBaselines[c].AvgTimeBetween * (n - 1)
                    = entries[n].Timestamp - entries[1].Timestamp

(***************************************************************************)
(* ota.Client: StartUpdateLoop, CheckForUpdates, ApplyUpdate               *)
(***************************************************************************)

MaxChecks == 2

Versions == {"v2", "v3"}

Digests == {"sha256:good", "sha256:evil"}

\* The secret of the controller when SIGNING_SECRET is set, and one it does
\* not have.
Secrets == {DefaultSecret, "prod-secret", "guessed"}

\* hex(sha256(digest + ":" + secret)): one value per digest and secret.
Sign(digest, secret) == <<"sha256", digest, ":", secret>>

Signatures == {Sign(d, s) : d \in Digests, s \in Secrets}

Attestations ==
    {NoAttestation, [form |-> "malformed", digest |-> "", signature |-> <<>>]}
        \cup {[form |-> "json", digest |-> d, signature |-> sig] :
                  d \in Digests, sig \in Signatures}

\* What the controller, or whoever answers in its place, may send.
UpdateResponses ==
    [Available : BOOLEAN, UpdateAllowed : BOOLEAN, Version : Versions,
     ImageDigest : Digests, Attestation : Attestations]

\* VerifySignature: true when the attestation parses, names the image digest
\* and carries the signature of that digest under the client's secret.
VerifySignature(secret, imageDigest, attestation) ==
    /\ attestation.form = "json"
    /\ attestation.digest = imageDigest
    /\ attestation.signature = Sign(attestation.digest, secret)

InitOTA ==
    /\ InitEngine
    /\ InitDetector(ZeroConfig, 0)
    /\ InitCheckers
    /\ InitHandler
    /\ InitScorer
    /\ InitManager
    /\ \E envSecret \in {"", "prod-secret"} : NewClient("v1", envSecret)

\* A tick on which CheckForUpdates returns an error.
CheckFails ==
    /\ opc = "idle"
    /\ checks < MaxChecks
    /\ checks' = checks + 1
    /\ UNCHANGED <<currentVersion, signingSecret, opc, updateResp, verified>>
    /\ UNCHANGED <<detVars, polVars, lockVars, pipeVars, scorerVars,
                   hookVars>>

\* A tick on which CheckForUpdates decodes a response.
CheckForUpdates(resp) ==
    /\ opc = "idle"
    /\ checks < MaxChecks
    /\ checks' = checks + 1
    /\ updateResp' = resp
    /\ verified' = "not_called"
    /\ opc' = "checked"
    /\ UNCHANGED <<currentVersion, signingSecret>>
    /\ UNCHANGED <<detVars, polVars, lockVars, pipeVars, scorerVars,
                   hookVars>>

\* No update available, or the update is not allowed: next tick.
SkipUpdate ==
    /\ opc = "checked"
    /\ ~updateResp.Available \/ ~updateResp.UpdateAllowed
    /\ opc' = "idle"
    /\ UNCHANGED <<currentVersion, signingSecret, updateResp, verified,
                   checks>>
    /\ UNCHANGED <<detVars, polVars, lockVars, pipeVars, scorerVars,
                   hookVars>>

\* ApplyUpdate: the signature is verified when the attestation is not the
\* empty string, and a failed verification returns; then the version is set.
ApplyUpdate ==
    /\ opc = "checked"
    /\ updateResp.Available /\ updateResp.UpdateAllowed
    /\ LET called == updateResp.Attestation.form # "empty"
           valid == VerifySignature(signingSecret, updateResp.ImageDigest,
                                    updateResp.Attestation)
       IN  IF called /\ ~valid
           THEN /\ verified' = "false"
                /\ currentVersion' = currentVersion
           ELSE /\ verified' = (IF called THEN "true" ELSE "not_called")
                /\ currentVersion' = updateResp.Version
    /\ opc' = "idle"
    /\ UNCHANGED <<signingSecret, updateResp, checks>>
    /\ UNCHANGED <<detVars, polVars, lockVars, pipeVars, scorerVars,
                   hookVars>>

NextOTA ==
    \/ CheckFails
    \/ \E resp \in UpdateResponses : CheckForUpdates(resp)
    \/ SkipUpdate
    \/ ApplyUpdate

SpecOTA == InitOTA /\ [][NextOTA]_vars

\* C34: the current version changes only in an ApplyUpdate in which
\* VerifySignature returned true for the offered image digest and
\* attestation.
C34_AppliedOnlyVerified ==
    [][currentVersion' # currentVersion => verified' = "true"]_vars

\* The number of RecordCommand calls made for command c.
CallsOf(c) ==
    Cardinality({i \in 1..Len(recordLog) : recordLog[i][1] = c})

\* C35: in a scorer built without a saved model, for each command the Count
\* of its baseline, the sum of its TypicalRoles, and the sum over the roles
\* of their TypicalCommands count for it are all the number of RecordCommand
\* calls made for it, whatever the history has evicted.
C35_HistogramsAgree ==
    ~fromFile =>
        \A c \in ScorerCommands :
            LET n == CallsOf(c)
                byRole == [r \in DOMAIN roleBaselines |->
                              MapGet(roleBaselines[r].TypicalCommands, c, 0)]
            IN  /\ c \in DOMAIN commandBaselines <=> n > 0
                /\ n > 0 => /\ commandBaselines[c].Count = n
                            /\ SumCounts(commandBaselines[c].TypicalRoles) = n
                /\ SumCounts(byRole) = n

\* Two roles sent the same command and the history kept one of the two
\* entries.
C35_Witness ==
    /\ ~fromFile
    /\ \E c \in ScorerCommands :
           /\ CallsOf(c) = 2
           /\ Cardinality(DOMAIN commandBaselines[c].TypicalRoles) = 2
    /\ Len(history) = 1

DecisionOfCall(i) ==
    Evaluate([Command |-> calls[i].command, OperatorRole |-> calls[i].role,
              MissionPhase |-> policyCtx.MissionPhase])

\* C38: every valid command is recorded by CheckCommand before the policy is
\* evaluated, and nothing the handler does afterwards, denial and failed
\* forward included, takes it out: the anomalies of the next command are
\* computed on windows that hold it.
C38_RecordedBeforePolicy ==
    /\ []((hpc # "idle" /\ req.valid) =>
            LET c == calls[Len(calls)]
            IN  /\ c.command = req.command /\ c.role = req.role
                /\ hDecision # NoDecision => c.ts = now
                /\ Has(MapGet(commandCounts, req.command, <<>>), c.ts)
                /\ Has(MapGet(operatorActivity, req.role, <<>>), c.ts))
    /\ [][hpc # "idle" =>
            UNCHANGED <<commandCounts, operatorActivity, calls>>]_vars
    /\ [](Len(calls) >= 2 =>
            calls[2].anomalies =
                CheckAnomalies(config,
                    recordCommand(EmptyMap, calls[1].command, calls[1].ts),
                    recordCommand(EmptyMap, calls[1].role, calls[1].ts),
                    calls[2].command, calls[2].role, calls[2].ts))

\* The same command a second time, after the policy denied the first: both
\* are in the window.
C38_Witness ==
    /\ Len(calls) = 2
    /\ ~DecisionOfCall(1).Allowed
    /\ calls[1].command = calls[2].command
    /\ Len(commandCounts[calls[2].command]) = 2
    /\ hpc = "done"

\* C39: every anomaly_detected event passed to sendEventToSOC carries the
\* command and the operator role of the request being served.
C39_AnomalyEventsCarryRequest ==
    \A i \in 1..Len(AuditsOf("anomaly_detected")) :
        LET event == AuditsOf("anomaly_detected")[i]
        IN  /\ event.command = req.command
            /\ event.operatorRole = req.role

(***************************************************************************)
(* integrations.WebhookManager: RegisterWebhook, SendEvent, worker         *)
(***************************************************************************)

MaxEvents == 2

\* The capacity of the queue channel, scaled down from the program's 1000.
QueueCapacity == 1

DefaultRetryCount == 3

HookNames == {"siem", "pager"}

EventTypes == {"incident", "anomaly"}

\* The configurations RegisterWebhook is called with: every event with the
\* default retry count, incidents only with one retry, the same disabled,
\* and one without a URL.
HookConfigs ==
    {[Name |-> "siem", URL |-> "https://siem", Enabled |-> TRUE,
      EventTypes |-> <<>>, RetryCount |-> 0],
     [Name |-> "pager", URL |-> "https://pager", Enabled |-> TRUE,
      EventTypes |-> <<"incident">>, RetryCount |-> 1],
     [Name |-> "pager", URL |-> "https://pager", Enabled |-> FALSE,
      EventTypes |-> <<"incident">>, RetryCount |-> 1],
     [Name |-> "pager", URL |-> "", Enabled |-> TRUE,
      EventTypes |-> <<"*">>, RetryCount |-> 1]}

\* RegisterWebhook: a name and a URL are required; a retry count of 0
\* becomes 3; the configuration replaces the one registered under its name.
RegisterWebhook(cfg) ==
    /\ cfg.Name # ""
    /\ cfg.URL # ""
    /\ webhooks' = MapSet(webhooks, cfg.Name,
           [cfg EXCEPT !.RetryCount =
                           IF @ = 0 THEN DefaultRetryCount ELSE @])
    /\ UNCHANGED <<queue, workers, ledger, events>>
    /\ UNCHANGED <<detVars, polVars, lockVars, pipeVars, scorerVars, otaVars>>

UnregisterWebhook(name) ==
    /\ name \in DOMAIN webhooks
    /\ webhooks' = [n \in DOMAIN webhooks \ {name} |-> webhooks[n]]
    /\ UNCHANGED <<queue, workers, ledger, events>>
    /\ UNCHANGED <<detVars, polVars, lockVars, pipeVars, scorerVars, otaVars>>

\* The event-type filter of SendEvent.
Matches(cfg, eventType) ==
    \/ Len(cfg.EventTypes) = 0
    \/ \E i \in 1..Len(cfg.EventTypes) :
           cfg.EventTypes[i] = eventType \/ cfg.EventTypes[i] = "*"

\* select { case m.queue <- delivery: default: }: queued when the channel
\* has room, dropped otherwise.
Offer(q, delivery) ==
    IF Len(q) < QueueCapacity THEN Append(q, delivery) ELSE q

\* The sequences that list each element of a set once: the orders in which
\* a range over a map can visit its keys.
Orders(S) ==
    {o \in [1..Cardinality(S) -> S] : \A n \in S : \E i \in DOMAIN o : o[i] = n}

\* The loop of SendEvent over the webhooks in the given order, on the queue
\* and the ledger.
RECURSIVE SendTo(_, _, _)
SendTo(order, eventType, st) ==
    IF order = <<>> THEN st
    ELSE LET cfg == webhooks[Head(order)]
             delivery == [id |-> Len(st.ledger) + 1, Name |-> cfg.Name,
                          RetryCount |-> cfg.RetryCount, Attempt |-> 0]
             entry == [RetryCount |-> cfg.RetryCount, attempts |-> 0,
                       succeeded |-> FALSE,
                       dropped |-> Len(st.queue) >= QueueCapacity]
         IN  IF cfg.Enabled /\ Matches(cfg, eventType)
             THEN SendTo(Tail(order), eventType,
                         [queue |-> Offer(st.queue, delivery),
                          ledger |-> Append(st.ledger, entry)])
             ELSE SendTo(Tail(order), eventType, st)

\* SendEvent(eventType, payload), under the read lock.
SendEvent(eventType, order) ==
    LET st == SendTo(order, eventType, [queue |-> queue, ledger |-> ledger])
    IN  /\ events < MaxEvents
        /\ events' = events + 1
        /\ queue' = st.queue
        /\ ledger' = st.ledger
        /\ UNCHANGED <<webhooks, workers>>
        /\ UNCHANGED <<detVars, polVars, lockVars, pipeVars, scorerVars,
                       otaVars>>

\* worker: the next delivery comes out of the queue.
Receive(w) ==
    /\ workers[w].pc = "receive"
    /\ queue # <<>>
    /\ workers' = [workers EXCEPT ![w] = [pc |-> "deliver",
                                          delivery |-> Head(queue)]]
    /\ queue' = Tail(queue)
    /\ UNCHANGED <<webhooks, ledger, events>>
    /\ UNCHANGED <<detVars, polVars, lockVars, pipeVars, scorerVars, otaVars>>

DeliverRetryOnceMore(w, success) ==
    LET d == workers[w].delivery
    IN  /\ workers[w].pc = "deliver"
        /\ ledger' = [ledger EXCEPT ![d.id].attempts = @ + 1,
                                    ![d.id].succeeded = success]
        /\ workers' = [workers EXCEPT ![w] =
               IF ~success /\ d.Attempt <= d.RetryCount
               THEN [pc |-> "backoff",
                     delivery |-> [d EXCEPT !.Attempt = @ + 1]]
               ELSE IdleWorker]
        /\ UNCHANGED <<webhooks, queue, events>>
        /\ UNCHANGED <<detVars, polVars, lockVars, pipeVars, scorerVars,
                       otaVars>>

\* worker: deliver returns, with success on a 2xx answer; after a failure
\* with attempts left the worker counts the attempt and sleeps.
Deliver(w, success) ==
    LET d == workers[w].delivery
    IN  /\ workers[w].pc = "deliver"
        /\ ledger' = [ledger EXCEPT ![d.id].attempts = @ + 1,
                                    ![d.id].succeeded = success]
        /\ workers' = [workers EXCEPT ![w] =
               IF ~success /\ d.Attempt < d.RetryCount
               THEN [pc |-> "backoff",
                     delivery |-> [d EXCEPT !.Attempt = @ + 1]]
               ELSE IdleWorker]
        /\ UNCHANGED <<webhooks, queue, events>>
        /\ UNCHANGED <<detVars, polVars, lockVars, pipeVars, scorerVars,
                       otaVars>>

\* worker: the sleep is over; the delivery goes back to the queue when the
\* queue has room and is dropped otherwise.
Requeue(w) ==
    LET d == workers[w].delivery
    IN  /\ workers[w].pc = "backoff"
        /\ queue' = Offer(queue, d)
        /\ ledger' = [ledger EXCEPT ![d.id].dropped =
                                        Len(queue) >= QueueCapacity]
        /\ workers' = [workers EXCEPT ![w] = IdleWorker]
        /\ UNCHANGED <<webhooks, events>>
        /\ UNCHANGED <<detVars, polVars, lockVars, pipeVars, scorerVars,
                       otaVars>>

\* No delivery is queued or in the hands of a worker.
Quiet == queue = <<>> /\ \A w \in Workers : workers[w] = IdleWorker

\* The webhooks are registered and unregistered between deliveries.
RegisterWhenQuiet(cfg) == Quiet /\ RegisterWebhook(cfg)

UnregisterWhenQuiet(name) == Quiet /\ UnregisterWebhook(name)

InitWebhooks ==
    /\ InitEngine
    /\ InitDetector(ZeroConfig, 0)
    /\ InitCheckers
    /\ InitClient
    /\ InitManager
    /\ InitHandler
    /\ InitScorer

NextWebhooks ==
    \/ \E cfg \in HookConfigs : RegisterWhenQuiet(cfg)
    \/ \E name \in HookNames : UnregisterWhenQuiet(name)
    \/ \E eventType \in EventTypes, order \in Orders(DOMAIN webhooks) :
           SendEvent(eventType, order)
    \/ \E w \in Workers : Receive(w)
    \/ \E w \in Workers, success \in BOOLEAN : Deliver(w, success)
    \/ \E w \in Workers : Requeue(w)

SpecWebhooks == InitWebhooks /\ [][NextWebhooks]_vars

\* The delivery is in the queue, or in the hands of a worker.
Pending(id) ==
    \/ \E i \in 1..Len(queue) : queue[i].id = id
    \/ \E w \in Workers : workers[w].delivery.id = id

\* C40: a delivery is attempted at most RetryCount + 1 times; once it has
\* succeeded it is neither attempted nor queued again; the queue never holds
\* more than its capacity, and a SendEvent or a worker that finds it full
\* drops the delivery and goes on.
C40_BoundedRetriesNoBlocking ==
    /\ [](\A id \in DOMAIN ledger :
              /\ ledger[id].attempts <= ledger[id].RetryCount + 1
              /\ ledger[id].succeeded => ~Pending(id)
              /\ ledger[id].dropped => ~Pending(id))
    /\ [][\A id \in DOMAIN ledger :
              ledger[id].succeeded => ledger'[id] = ledger[id]]_vars
    /\ [](Len(queue) <= QueueCapacity)
    /\ [][\A w \in Workers :
              (workers[w].pc = "backoff" /\ workers'[w] # workers[w]) =>
                  /\ workers'[w] = IdleWorker
                  /\ IF Len(queue) < QueueCapacity
                     THEN queue' = Append(queue, workers[w].delivery)
                     ELSE /\ queue' = queue
                          /\ ledger'[workers[w].delivery.id].dropped]_vars
    /\ [][events' = events + 1 =>
              \A id \in DOMAIN ledger' \ DOMAIN ledger :
                  ledger'[id].dropped <=>
                      ~(\E i \in 1..Len(queue') : queue'[i].id = id)]_vars

\* One delivery was given up after RetryCount + 1 attempts, one succeeded on
\* a retry, and one was dropped by SendEvent on a full queue.
C40_Witness ==
    \E a, b, c \in DOMAIN ledger :
        /\ ledger[a].attempts = ledger[a].RetryCount + 1
        /\ ~ledger[a].succeeded /\ ~Pending(a)
        /\ ledger[b].succeeded /\ ledger[b].attempts >= 2
        /\ ledger[c].dropped /\ ledger[c].attempts = 0

====
